---- MODULE Spec2Model ----
(***************************************************************************)
(* Backtest execution engine of quant-pack.                                *)
(*                                                                         *)
(*   - TradingSimulator.simulate_trades        (services/backtest_service) *)
(*   - IntegratedBacktestExecutor._execute_simulation / _execute_trades    *)
(*   - BacktestService.execute_backtest and                                *)
(*     IntegratedBacktestExecutor.execute_integrated_backtest lifecycles   *)
(*                                                                         *)
(* Money is kept in thousandths of a currency unit so that the 0.1%        *)
(* commission is exact integer arithmetic: a float amount x is the         *)
(* integer x * Milli.                                                      *)
(***************************************************************************)
EXTENDS Integers, Sequences, FiniteSets, TLC

\* ------------------------------------------------------------------ bounds
\* number of bars of the shortest series handed to _execute_simulation
MaxSteps == 2
\* number of signals handed to simulate_trades
MaxSignals == 2
\* number of execute_* calls made on the one backtest id
MaxCalls == 2
\* length of the trade list handed to _calculate_trade_metrics
MaxTrades == 3
\* length of the value series handed to the metrics calculations
MaxValues == 5

\* --------------------------------------------------------- program constants
\* 0.001 == 1 / Milli : the hard-coded commission of _execute_trades
Milli == 1000
\* execute_integrated_backtest(initial_capital = 100000.0)
DefaultInitialCapital == 100000
\* create_backtest: BacktestConfig(initial_cash = 100000.0)
DefaultInitialCash == 100000
\* simulate_trades: price_data = {symbol: 100.0 ...}
InitialPrice == 100
\* simulate_trades: signal.get("quantity", 10)
DefaultQuantity == 10

\* ------------------------------------------------------------ input domains
Symbols == {"A", "B"}
\* a ticker that is not among config.symbols
UnknownSymbol == "Z"
\* closes a bar can carry (0 stands for a missing or non-positive close)
Closes == {0, 100, 105}
\* prices the random walk of simulate_trades can reach
WalkPrices == {95, 100, 105}
\* quantities a signal can carry: negative, zero, affordable, oversized
Quantities == {-5, 0, 10, 600}
\* quantities of the BUY and of the SELL signals a strategy returns
BuyQuantities == {0, 10, 600}
SellQuantities == {-5, 10, 600}
Actions == {"BUY", "SELL", "HOLD"}
\* the symbols whose fetch yielded bars: the keys of market_data
MarketSymbolSets == {{"A"}, {"A", "B"}}
\* commission_rate of the config, in thousandths
CommissionRates == {0, 1}

\* ----------------------------------------------------------------- helpers
\* dict.get(key, default)
Get(d, key, default) == IF key \in DOMAIN d THEN d[key] ELSE default

\* d[key] = value on a dict
Put(d, key, value) == [k \in DOMAIN d \cup {key} |-> IF k = key THEN value ELSE d[k]]

EmptyDict == [k \in {} |-> 0]

Min(a, b) == IF a <= b THEN a ELSE b

RECURSIVE SumOver(_, _)
\* sum of f[k] over a finite set of keys
SumOver(f, keys) ==
  IF keys = {} THEN 0
  ELSE LET k == CHOOSE x \in keys : TRUE IN f[k] + SumOver(f, keys \ {k})

\* Trade(symbol, trade_type, quantity, price, commission); trade_id and
\* timestamp are wall-clock values no property reads
Trade(symbol, trade_type, quantity, price, commission) ==
  [symbol |-> symbol, trade_type |-> trade_type, quantity |-> quantity,
   price |-> price, commission |-> commission]

\* ------------------------------------------- IntegratedBacktestExecutor ledger
\* one signal of the strategy's mapping: valid = FALSE is a value that is not
\* a mapping (signal.get raises)
IbeSignalValues ==
  [valid : {TRUE}, action : {"BUY"}, quantity : BuyQuantities]
    \cup [valid : {TRUE}, action : {"SELL"}, quantity : SellQuantities]
    \cup [valid : {TRUE}, action : {"HOLD"}, quantity : {0}]
    \cup [valid : {FALSE}, action : {"HOLD"}, quantity : {0}]

\* the mapping the strategy returns, in its iteration order: a sequence of
\* <<symbol, signal>> items with distinct symbols
IbeSignalDicts ==
  {<< >>}
    \cup {<<[symbol |-> s, signal |-> v]>> : s \in Symbols, v \in IbeSignalValues}
    \cup {<<[symbol |-> s1, signal |-> v1], [symbol |-> s2, signal |-> v2]>> :
            <<s1, s2>> \in {p \in Symbols \X Symbols : p[1] # p[2]},
            <<v1, v2>> \in IbeSignalValues \X IbeSignalValues}

\* a faulty variant of IbeCommission: 1% is charged instead of 0.1%
IbeCommissionPercent(cost) == cost \div 100

\* commission = cost * 0.001
IbeCommission(cost) == cost \div Milli

\* total_cost <= current_capital, against the capital the caller passed in
BuyAdmitted(price, quantity, capital) ==
  LET cost == price * quantity * Milli IN cost + IbeCommission(cost) <= capital

\* sell_quantity = min(quantity, current_position)
SellQuantity(quantity, current_position) == Min(quantity, current_position)

RECURSIVE ExecuteTradesFrom(_, _, _, _, _, _)
\* the for loop of _execute_trades from item k on; pos is the positions dict it
\* mutates in place, acc the local list trades
ExecuteTradesFrom(signals, k, day, pos, capital, acc) ==
  IF k > Len(signals) THEN [trades |-> acc, positions |-> pos, raised |-> FALSE]
  ELSE
    LET symbol == signals[k].symbol
        signal == signals[k].signal
    IN
    IF symbol \notin DOMAIN day
      THEN ExecuteTradesFrom(signals, k + 1, day, pos, capital, acc)
    ELSE IF day[symbol] <= 0
      THEN ExecuteTradesFrom(signals, k + 1, day, pos, capital, acc)
    ELSE IF ~signal.valid
      THEN [trades |-> acc, positions |-> pos, raised |-> TRUE]
    ELSE
      LET price == day[symbol]
          quantity == signal.quantity
      IN
      IF signal.action = "BUY" /\ quantity > 0 THEN
        IF BuyAdmitted(price, quantity, capital)
          THEN ExecuteTradesFrom(signals, k + 1, day,
                 Put(pos, symbol, Get(pos, symbol, 0) + quantity), capital,
                 Append(acc, Trade(symbol, "BUY", quantity, price,
                                   IbeCommission(price * quantity * Milli))))
          ELSE ExecuteTradesFrom(signals, k + 1, day, pos, capital, acc)
      ELSE IF signal.action = "SELL" /\ quantity > 0 THEN
        LET sell_quantity == SellQuantity(quantity, Get(pos, symbol, 0)) IN
        IF sell_quantity > 0
          THEN ExecuteTradesFrom(signals, k + 1, day,
                 Put(pos, symbol, pos[symbol] - sell_quantity), capital,
                 Append(acc, Trade(symbol, "SELL", sell_quantity, price,
                                   IbeCommission(price * sell_quantity * Milli))))
          ELSE ExecuteTradesFrom(signals, k + 1, day, pos, capital, acc)
      ELSE ExecuteTradesFrom(signals, k + 1, day, pos, capital, acc)

\* _execute_trades(signals, day_data, positions, current_capital)
ExecuteTrades(signals, day, pos, capital) ==
  ExecuteTradesFrom(signals, 1, day, pos, capital, << >>)

RECURSIVE CapitalAfter(_, _, _)
\* the loop "for trade in day_trades" of _execute_simulation
CapitalAfter(capital, day_trades, k) ==
  IF k > Len(day_trades) THEN capital
  ELSE LET trade == day_trades[k] IN
    IF trade.trade_type = "BUY"
      THEN CapitalAfter(capital - (trade.price * trade.quantity * Milli + trade.commission),
                        day_trades, k + 1)
      ELSE CapitalAfter(capital + (trade.price * trade.quantity * Milli - trade.commission),
                        day_trades, k + 1)

\* _calculate_portfolio_value(positions, day_data, cash)
CalculatePortfolioValue(pos, day, cash) ==
  cash + SumOver([s \in DOMAIN pos |->
                    IF s \in DOMAIN day /\ pos[s] > 0 THEN day[s] * pos[s] * Milli ELSE 0],
                 DOMAIN pos)

\* --------------------------------------------------- TradingSimulator ledger
\* config.symbols of the simulated backtest
ConfigSymbols == <<"A", "B">>

\* the signal dicts handed to simulate_trades; a key may be missing
TsSignalDicts ==
  [symbol : Symbols \cup {UnknownSymbol}, action : Actions, quantity : Quantities]
    \cup [action : {"SELL"}, quantity : {10}]
    \cup [symbol : {"B"}, quantity : {10}]
    \cup [symbol : Symbols, action : {"BUY", "SELL"}]

\* cost = quantity * current_price * (1 + commission_rate)
TsCost(quantity, price, rate) == quantity * price * (Milli + rate)

\* revenue = quantity * current_price * (1 - commission_rate)
TsRevenue(quantity, price, rate) == quantity * price * (Milli - rate)

\* commission = quantity * current_price * commission_rate
TsCommission(quantity, price, rate) == quantity * price * rate

\* current_cash >= cost
TsBuyAdmitted(cash, cost) == cash >= cost

\* positions.get(symbol, 0) >= quantity
TsSellAdmitted(held, quantity) == held >= quantity

\* portfolio_value = current_cash + sum of shares * price_data[sym]
TsPortfolioValue(cash, pos, prices) ==
  cash + SumOver([s \in DOMAIN pos |-> pos[s] * prices[s] * Milli], DOMAIN pos)

\* one iteration of the for loop of simulate_trades on the ledger st; walk is
\* the price the random walk moves the symbol to. raised: the except branch
\* was taken (continue, nothing appended to portfolio_values)
SimulateSignal(st, sig, walk, rate) ==
  LET symbol == Get(sig, "symbol", ConfigSymbols[1])
      action == Get(sig, "action", "BUY")
      quantity == Get(sig, "quantity", DefaultQuantity)
  IN
  IF symbol \notin DOMAIN st.price_data THEN [st EXCEPT !.raised = TRUE]
  ELSE
    LET prices == Put(st.price_data, symbol, walk)
        current_price == prices[symbol]
        walked == [st EXCEPT !.price_data = prices, !.raised = FALSE]
        valued(x) ==
          [x EXCEPT !.portfolio_values =
             Append(@, TsPortfolioValue(x.current_cash, x.positions, x.price_data))]
    IN
    IF action = "BUY" THEN
      LET cost == TsCost(quantity, current_price, rate) IN
      IF TsBuyAdmitted(st.current_cash, cost)
        THEN valued([walked EXCEPT
               !.current_cash = @ - cost,
               !.positions = Put(@, symbol, Get(@, symbol, 0) + quantity),
               !.trades = Append(@, Trade(symbol, "BUY", quantity, current_price,
                                          TsCommission(quantity, current_price, rate)))])
        ELSE valued(walked)
    ELSE IF action = "SELL" THEN
      IF TsSellAdmitted(Get(st.positions, symbol, 0), quantity)
        THEN LET paid == [walked EXCEPT
                            !.current_cash = @ + TsRevenue(quantity, current_price, rate)]
             IN
             IF symbol \notin DOMAIN st.positions
               THEN [paid EXCEPT !.raised = TRUE]
               ELSE valued([paid EXCEPT
                      !.positions = Put(@, symbol, @[symbol] - quantity),
                      !.trades = Append(@, Trade(symbol, "SELL", quantity, current_price,
                                                 TsCommission(quantity, current_price, rate)))])
        ELSE valued(walked)
    ELSE valued(walked)

\* ------------------------------------------------------- performance metrics
\* a float that is the ratio of two integers
Frac(n, d) == [num |-> n, den |-> d]

\* the float 0.0
Zero == Frac(0, 1)

\* a faulty variant of FracLess: the comparison is reversed
FracMore(a, b) == b.num * a.den < a.num * b.den

\* a < b for two ratios with positive denominators
FracLess(a, b) == a.num * b.den < b.num * a.den

\* the values a series handed to the metrics calculations can hold
SeriesValues == {0, 80, 90, 100, 110, 120}

\* the series: every list of at most MaxValues values
ValueSeries == UNION {[1..n -> SeriesValues] : n \in 0..MaxValues}

\* the initial_value / initial_capital the metrics are computed against
MetricsInitialValue == 100

RECURSIVE IbeMaxDrawdownFrom(_, _, _, _, _)
\* "for value in values" of IntegratedBacktestExecutor._calculate_max_drawdown
\* from item k on; peaks lists the peak after every item
IbeMaxDrawdownFrom(values, k, peak, max_dd, peaks) ==
  IF k > Len(values) THEN [max_dd |-> max_dd, peaks |-> peaks]
  ELSE
    LET value == values[k]
        new_peak == IF value > peak THEN value ELSE peak
        drawdown == IF new_peak > 0 THEN Frac(new_peak - value, new_peak) ELSE Zero
        \* max(max_dd, drawdown)
        new_max == IF FracLess(max_dd, drawdown) THEN drawdown ELSE max_dd
    IN IbeMaxDrawdownFrom(values, k + 1, new_peak, new_max, Append(peaks, new_peak))

\* IntegratedBacktestExecutor._calculate_max_drawdown(values)
IbeCalculateMaxDrawdown(values) ==
  IF values = << >> THEN [max_dd |-> Zero, peaks |-> << >>]
  ELSE IbeMaxDrawdownFrom(values, 1, values[1], Zero, << >>)

RECURSIVE PcMaxDrawdownFrom(_, _, _, _, _)
\* "for value in values" of PerformanceCalculator._calculate_max_drawdown
PcMaxDrawdownFrom(values, k, peak, max_dd, peaks) ==
  IF k > Len(values) THEN [max_dd |-> max_dd, peaks |-> peaks]
  ELSE
    LET value == values[k]
        new_peak == IF value > peak THEN value ELSE peak
        drawdown == IF new_peak > 0 THEN Frac(new_peak - value, new_peak) ELSE Zero
        \* if drawdown > max_dd: max_dd = drawdown
        new_max == IF FracLess(max_dd, drawdown) THEN drawdown ELSE max_dd
    IN PcMaxDrawdownFrom(values, k + 1, new_peak, new_max, Append(peaks, new_peak))

\* PerformanceCalculator._calculate_max_drawdown(values)
PcCalculateMaxDrawdown(values) ==
  IF values = << >> THEN [max_dd |-> Zero, peaks |-> << >>]
  ELSE PcMaxDrawdownFrom(values, 1, values[1], Zero, << >>)

\* a faulty variant of ZeroMetrics: the total return is not 0.0
NonZeroMetrics ==
  [raised |-> FALSE, total_return |-> Frac(0 - 1, 1), annualized_return |-> Zero,
   volatility |-> Zero, sharpe_ratio |-> Zero, max_drawdown |-> Zero]

\* the metrics both calculations return for a series of fewer than 2 values
ZeroMetrics ==
  [raised |-> FALSE, total_return |-> Zero, annualized_return |-> Zero,
   volatility |-> Zero, sharpe_ratio |-> Zero, max_drawdown |-> Zero]

\* the call left through ZeroDivisionError
DivisionFault == [raised |-> TRUE]

\* (1 + total_return) ** (365 / days) - 1, kept as the expression it is
Annualized(total_return, days) ==
  [base |-> Frac(total_return.den + total_return.num, total_return.den),
   exponent |-> Frac(365, days)]

\* np.std(daily_returns) * np.sqrt(252), kept as the expression it is; 0.0 for
\* an empty list
Volatility(daily_returns) ==
  IF daily_returns = << >> THEN Zero ELSE [std_of |-> daily_returns, times_sqrt |-> 252]

\* annualized_return / volatility if volatility > 0 else 0.0, kept as the
\* expression it is: the quotient where the divisor is positive, else 0.0
SharpeRatio(annualized_return, volatility) ==
  IF volatility = Zero THEN Zero
  ELSE [dividend |-> annualized_return, divisor |-> volatility, if_not_positive |-> Zero]

\* PerformanceCalculator.calculate_metrics(daily_values, initial_value): every
\* daily return divides by the previous value
PcCalculateMetrics(daily_values, initial_value) ==
  IF Len(daily_values) < 2 THEN ZeroMetrics
  ELSE IF \E k \in 2..Len(daily_values) : daily_values[k - 1] = 0 THEN DivisionFault
  ELSE IF initial_value = 0 THEN DivisionFault
  ELSE
    LET daily_returns ==
          [k \in 1..(Len(daily_values) - 1) |->
             Frac(daily_values[k + 1] - daily_values[k], daily_values[k])]
        total_return == Frac(daily_values[Len(daily_values)] - initial_value, initial_value)
        annualized_return == Annualized(total_return, Len(daily_values))
        volatility == Volatility(daily_returns)
    IN [raised |-> FALSE, total_return |-> total_return,
        annualized_return |-> annualized_return, volatility |-> volatility,
        sharpe_ratio |-> SharpeRatio(annualized_return, volatility),
        max_drawdown |-> PcCalculateMaxDrawdown(daily_values).max_dd]

\* the indices k of the daily returns _calculate_performance_metrics keeps:
\* "if portfolio_values[i - 1] > 0"
KeptReturns(portfolio_values) ==
  {k \in 1..(Len(portfolio_values) - 1) : portfolio_values[k] > 0}

RECURSIVE ListOf(_, _)
\* the items f[k], k in keys, as a list in increasing order of k
ListOf(f, keys) ==
  IF keys = {} THEN << >>
  ELSE LET k == CHOOSE x \in keys : \A y \in keys : x <= y
       IN <<f[k]>> \o ListOf(f, keys \ {k})

\* final_value = portfolio_values[-1];
\* total_return = (final_value - initial_capital) / initial_capital
IbeTotalReturn(portfolio_values, initial_capital) ==
  Frac(portfolio_values[Len(portfolio_values)] - initial_capital, initial_capital)

\* the return value of _calculate_performance_metrics apart from its trade
\* counts
IbeCalculateMetrics(portfolio_values, initial_capital) ==
  IF Len(portfolio_values) < 2 THEN ZeroMetrics
  ELSE IF initial_capital = 0 THEN DivisionFault
  ELSE
    LET total_return == IbeTotalReturn(portfolio_values, initial_capital)
        daily_returns ==
          ListOf([k \in 1..(Len(portfolio_values) - 1) |->
                    Frac(portfolio_values[k + 1] - portfolio_values[k], portfolio_values[k])],
                 KeptReturns(portfolio_values))
        annualized_return == Annualized(total_return, Len(portfolio_values))
        volatility == Volatility(daily_returns)
    IN [raised |-> FALSE, total_return |-> total_return,
        annualized_return |-> annualized_return, volatility |-> volatility,
        sharpe_ratio |-> SharpeRatio(annualized_return, volatility),
        max_drawdown |-> IbeCalculateMaxDrawdown(portfolio_values).max_dd]

\* ------------------------------------------------------------ trade metrics
\* the trades a list handed to _calculate_trade_metrics can hold; the ledger
\* records positive quantities only
MetricTrades ==
  {Trade("A", t, q, p, 0) : t \in {"BUY", "SELL"}, q \in {5, 10, 15}, p \in {100, 120, 130}}
    \cup {Trade("B", t, 10, 100, 0) : t \in {"BUY", "SELL"}}

\* the trade lists: every list of at most MaxTrades trades
TradeLists == UNION {[1..n -> MetricTrades] : n \in 0..MaxTrades}

\* a faulty variant of OldestLot: the newest lot is matched first
NewestLot(lots) == Len(lots)

\* buy_trade = positions[symbol][0]: where in the list of outstanding lots the
\* lot to match stands
OldestLot(lots) == 1

\* list.pop of the item at place k
Pop(lots, k) == SubSeq(lots, 1, k - 1) \o SubSeq(lots, k + 1, Len(lots))

RECURSIVE MatchLots(_, _, _, _, _)
\* the while loop of _calculate_trade_metrics for the SELL trade at index sell:
\* st.trades is the list of Trade objects (a lot is the BUY Trade object itself,
\* named by its index), st.positions the outstanding lots by symbol
MatchLots(st, sell, symbol, price, remaining_quantity) ==
  IF ~(remaining_quantity > 0 /\ st.positions[symbol] # << >>) THEN st
  ELSE
    LET place == OldestLot(st.positions[symbol])
        lot == st.positions[symbol][place]
        buy_trade == st.trades[lot]
    IN
    IF buy_trade.quantity <= remaining_quantity THEN
      LET profit == (price - buy_trade.price) * buy_trade.quantity IN
      MatchLots([st EXCEPT
                   !.total_trades = @ + 1,
                   !.winning_trades = IF profit > 0 THEN @ + 1 ELSE @,
                   !.matches = Append(@, [sell |-> sell, lot |-> lot,
                                          quantity |-> buy_trade.quantity,
                                          profit |-> profit]),
                   !.positions[symbol] = Pop(@, place)],
                sell, symbol, price, remaining_quantity - buy_trade.quantity)
    ELSE
      LET profit == (price - buy_trade.price) * remaining_quantity IN
      MatchLots([st EXCEPT
                   !.total_trades = @ + 1,
                   !.winning_trades = IF profit > 0 THEN @ + 1 ELSE @,
                   !.matches = Append(@, [sell |-> sell, lot |-> lot,
                                          quantity |-> remaining_quantity,
                                          profit |-> profit]),
                   !.trades[lot].quantity = @ - remaining_quantity],
                sell, symbol, price, 0)

RECURSIVE TradeMetricsFrom(_, _)
\* "for trade in trades" of _calculate_trade_metrics from index k on
TradeMetricsFrom(st, k) ==
  IF k > Len(st.trades) THEN st
  ELSE
    LET trade == st.trades[k]
        symbol == trade.symbol
    IN
    IF trade.trade_type = "BUY" THEN
      TradeMetricsFrom(
        [st EXCEPT !.positions = Put(@, symbol, Append(Get(@, symbol, << >>), k))], k + 1)
    ELSE IF trade.trade_type = "SELL" /\ symbol \in DOMAIN st.positions THEN
      TradeMetricsFrom(MatchLots(st, k, symbol, trade.price, trade.quantity), k + 1)
    ELSE TradeMetricsFrom(st, k + 1)

\* _calculate_trade_metrics(trades): its return values, with the locals it
\* ends with (positions, the matches it counted) and the Trade objects of the
\* caller's list as it leaves them
CalculateTradeMetrics(ts) ==
  LET start == [trades |-> ts, positions |-> EmptyDict, winning_trades |-> 0,
                total_trades |-> 0, matches |-> << >>]
      st == IF Len(ts) < 2 THEN start ELSE TradeMetricsFrom(start, 1)
  IN [win_rate |-> IF st.total_trades > 0
                     THEN Frac(st.winning_trades, st.total_trades) ELSE Zero,
      winning_trades |-> st.winning_trades,
      losing_trades |-> st.total_trades - st.winning_trades,
      trades |-> st.trades, positions |-> st.positions, matches |-> st.matches]

\* ----------------------------------------------- whole simulations and results
\* what the strategy does at one step: it returns a mapping or raises
Returned(sigs) == [raises |-> FALSE, signals |-> sigs]
StrategyRaised == [raises |-> TRUE, signals |-> << >>]

RECURSIVE ExecuteSimulationFrom(_, _, _, _)
\* the loop "for i in range(min_length)" of _execute_simulation from step k on;
\* days[k] is day_data of the step, outs[k] what generate_signals does
ExecuteSimulationFrom(st, days, outs, k) ==
  IF k > Len(days) THEN st
  \* if not day_data: continue
  ELSE IF DOMAIN days[k] = {} THEN ExecuteSimulationFrom(st, days, outs, k + 1)
  ELSE
    LET previous == st.portfolio_values[Len(st.portfolio_values)] IN
    IF outs[k].raises
      THEN ExecuteSimulationFrom([st EXCEPT !.portfolio_values = Append(@, previous)],
                                 days, outs, k + 1)
      ELSE
        LET done == ExecuteTrades(outs[k].signals, days[k], st.positions, st.current_capital)
            capital == CapitalAfter(st.current_capital, done.trades, 1)
        IN
        IF done.raised
          THEN ExecuteSimulationFrom(
                 [st EXCEPT !.positions = done.positions,
                            !.portfolio_values = Append(@, previous)],
                 days, outs, k + 1)
          ELSE ExecuteSimulationFrom(
                 [st EXCEPT !.positions = done.positions,
                            !.trades = @ \o done.trades,
                            !.current_capital = capital,
                            !.portfolio_values =
                               Append(@, CalculatePortfolioValue(done.positions, days[k],
                                                                 capital))],
                 days, outs, k + 1)

\* _execute_simulation(strategy_instance, market_data, initial_capital, symbols)
ExecuteSimulation(days, outs, initial_capital) ==
  ExecuteSimulationFrom([trades |-> << >>, portfolio_values |-> <<initial_capital>>,
                         current_capital |-> initial_capital, positions |-> EmptyDict],
                        days, outs, 1)

\* _calculate_performance_metrics(portfolio_values, initial_capital, trades):
\* the PerformanceMetrics it returns, with the Trade objects of the caller's
\* list as it leaves them (trades) and as it was given them (given)
IbePerformance(values, initial_capital, ts) ==
  LET m == IbeCalculateMetrics(values, initial_capital) IN
  IF m.raised THEN [raised |-> TRUE, trades |-> ts, given |-> ts]
  ELSE IF Len(values) < 2 THEN
    [raised |-> FALSE, total_return |-> Zero, annualized_return |-> Zero,
     volatility |-> Zero, sharpe_ratio |-> Zero, max_drawdown |-> Zero,
     total_trades |-> 0, winning_trades |-> 0, losing_trades |-> 0, win_rate |-> Zero,
     trades |-> ts, given |-> ts]
  ELSE
    LET t == CalculateTradeMetrics(ts) IN
    [raised |-> FALSE, total_return |-> m.total_return,
     annualized_return |-> m.annualized_return, volatility |-> m.volatility,
     sharpe_ratio |-> m.sharpe_ratio, max_drawdown |-> m.max_drawdown,
     total_trades |-> Len(ts), winning_trades |-> t.winning_trades,
     losing_trades |-> t.losing_trades, win_rate |-> t.win_rate,
     trades |-> t.trades, given |-> ts]

\* min(len(data) for data in market_data.values() if data)
MinLength(market_data) ==
  LET lens == {Len(market_data[s]) : s \in {x \in DOMAIN market_data : market_data[x] # << >>}}
  IN CHOOSE n \in lens : \A m \in lens : n <= m

\* day_data of every step of _execute_simulation: the bar of step k of each of
\* symbols that is in market_data and has one; a bar is its close
MarketDays(market_data, symbols) ==
  [k \in 1..MinLength(market_data) |->
     [s \in {x \in symbols \cap DOMAIN market_data : k <= Len(market_data[x])} |->
        market_data[s][k]]]

\* the fields of PerformanceMetrics
PerformanceFields ==
  {"total_return", "annualized_return", "volatility", "sharpe_ratio", "max_drawdown",
   "total_trades", "winning_trades", "losing_trades", "win_rate"}

\* the PerformanceMetrics object within what a calculation returned
PerformanceMetrics(p) == [f \in PerformanceFields |-> p[f]]

\* the bars of the symbols that yielded data, by step: every symbol closes at
\* closes[k] at step k
Days(symbols, closes) == [k \in DOMAIN closes |-> [s \in symbols |-> closes[k]]]

\* the closes of the runs execute_integrated_backtest simulates
RunCloses == {<<100, 95>>, <<100, 105>>, <<50, 55>>}

\* what the strategy does in those runs, step by step
RunStrategies ==
  {<<Returned(<< >>), Returned(<< >>)>>,
   <<Returned(<<[symbol |-> "A",
                 signal |-> [valid |-> TRUE, action |-> "BUY", quantity |-> 1]]>>),
     Returned(<<[symbol |-> "A",
                 signal |-> [valid |-> TRUE, action |-> "SELL", quantity |-> 1]]>>)>>,
   <<Returned(<<[symbol |-> "A",
                 signal |-> [valid |-> TRUE, action |-> "BUY", quantity |-> 1]]>>),
     StrategyRaised>>,
   <<Returned(<<[symbol |-> "A",
                 signal |-> [valid |-> TRUE, action |-> "BUY", quantity |-> 2]]>>),
     Returned(<<[symbol |-> "A",
                 signal |-> [valid |-> TRUE, action |-> "SELL", quantity |-> 1]]>>)>>}

RECURSIVE SimulateTradesFrom(_, _, _, _, _)
\* "for _, signal in enumerate(signals)" of simulate_trades from item k on
SimulateTradesFrom(st, sigs, walks, k, rate) ==
  IF k > Len(sigs) THEN st
  ELSE SimulateTradesFrom(SimulateSignal(st, sigs[k], walks[k], rate), sigs, walks,
                          k + 1, rate)

\* TradingSimulator(config).simulate_trades(signals)
SimulateTrades(sigs, walks, initial_cash, rate) ==
  SimulateTradesFrom([current_cash |-> initial_cash, positions |-> EmptyDict,
                      trades |-> << >>, price_data |-> [s \in Symbols |-> InitialPrice],
                      portfolio_values |-> <<initial_cash>>, raised |-> FALSE],
                     sigs, walks, 1, rate)

\* create_backtest: BacktestConfig(commission_rate = 0.001), in thousandths
DefaultCommissionRate == 1

\* the signal lists execute_backtest is called with
RunSignalLists ==
  {<< >>,
   <<[symbol |-> "A", action |-> "HOLD", quantity |-> 1]>>,
   <<[symbol |-> "A", action |-> "BUY", quantity |-> 1]>>,
   <<[symbol |-> "A", action |-> "BUY", quantity |-> 1],
     [symbol |-> "A", action |-> "SELL", quantity |-> 1]>>}

\* the prices the random walk takes in those calls
RunWalks == {<<100, 95>>, <<100, 105>>}

\* the number of trades of list ts with the given trade_type
CountOf(ts, trade_type) == Cardinality({k \in DOMAIN ts : ts[k].trade_type = trade_type})

\* execute_backtest: PerformanceMetrics(total_return = metrics[...], ...,
\* total_trades = len(trades), winning_trades = number of BUY trades,
\* losing_trades = number of SELL trades, win_rate = BUY trades / len(trades))
BsPerformance(metrics, ts) ==
  [total_return |-> metrics.total_return, annualized_return |-> metrics.annualized_return,
   volatility |-> metrics.volatility, sharpe_ratio |-> metrics.sharpe_ratio,
   max_drawdown |-> metrics.max_drawdown, total_trades |-> Len(ts),
   winning_trades |-> CountOf(ts, "BUY"), losing_trades |-> CountOf(ts, "SELL"),
   win_rate |-> IF ts # << >> THEN Frac(CountOf(ts, "BUY"), Len(ts)) ELSE Zero]

\* ------------------------------------------------------ persisted documents
\* an optional object: None, or the one object
None == << >>
Some(x) == <<x>>
Val(opt) == opt[1]

\* a field that is None (start_time = None, end_time = None, ...)
NoneTime == 0
NoneText == "None"

\* the status a Backtest document is created with
DefaultStatus == "PENDING"

\* create_backtest: Backtest(name, ..., start_time=None, end_time=None,
\* duration_seconds=None, performance=None, error_message=None)
NewBacktest ==
  [status |-> DefaultStatus, start_time |-> NoneTime, end_time |-> NoneTime,
   duration_seconds |-> NoneTime, performance |-> None, error_message |-> NoneText]

\* a faulty variant of IbeMarkRunning: start_time is written, the status is not
IbeMarkRunningKeepsStatus(b, now) == [b EXCEPT !.start_time = now]

\* execute_integrated_backtest: backtest.status = RUNNING; start_time = now
IbeMarkRunning(b, now) == [b EXCEPT !.status = "RUNNING", !.start_time = now]

\* execute_integrated_backtest: step 8, the backtest is completed
IbeMarkCompleted(b, now, performance) ==
  [b EXCEPT !.status = "COMPLETED", !.end_time = now, !.duration_seconds = now,
            !.performance = performance]

\* a faulty variant of IbeMarkFailed: the error message is not stored
IbeMarkFailedSilent(b, now, e) == [b EXCEPT !.status = "FAILED", !.end_time = now]

\* execute_integrated_backtest, except branch: "if backtest:"
IbeMarkFailed(b, now, e) ==
  [b EXCEPT !.status = "FAILED", !.end_time = now, !.error_message = e]

\* a list or dict field of a BacktestExecution that its constructor is not
\* given: it holds nothing of the run
NotGiven == << >>

\* execute_integrated_backtest: execution = BacktestExecution(status=RUNNING, ...)
IbeNewExecution(now) ==
  [status |-> "RUNNING", start_time |-> now, end_time |-> NoneTime,
   error_message |-> NoneText, trades |-> NotGiven, portfolio_values |-> NotGiven,
   positions |-> NotGiven]

\* execute_integrated_backtest: execution.status = COMPLETED; end_time = now;
\* execution.trades = trades; execution.portfolio_values = portfolio_values
IbeExecutionCompleted(x, now, ts, values) ==
  [x EXCEPT !.status = "COMPLETED", !.end_time = now, !.trades = ts,
            !.portfolio_values = values]

\* execute_integrated_backtest, except branch: "if execution:"
IbeExecutionFailed(x, now, e) ==
  [x EXCEPT !.status = "FAILED", !.end_time = now, !.error_message = e]

\* execute_backtest: backtest.status = RUNNING; start_time = start_time
BsMarkRunning(b, now) == [b EXCEPT !.status = "RUNNING", !.start_time = now]

\* execute_backtest: the backtest is completed
BsMarkCompleted(b, now, performance) ==
  [b EXCEPT !.status = "COMPLETED", !.end_time = now, !.duration_seconds = now,
            !.performance = performance]

\* execute_backtest, except branch
BsMarkFailed(b, now, e) ==
  [b EXCEPT !.status = "FAILED", !.end_time = now, !.duration_seconds = now]

\* Position(symbol, quantity=0, avg_price=0.0, ...): average_price is the
\* attribute the loop reads; where the class offers it, it holds 0.0 until
\* something sets it
NewPosition == [quantity |-> 0, avg_price |-> Zero, average_price |-> Zero]

RECURSIVE BsPositionsFrom(_, _, _, _)
\* execute_backtest: "for trade in trades" of the final positions from index k
\* on. The loop writes avg_price and reads average_price: alias says that the
\* class makes them one attribute
BsPositionsFrom(ts, k, pos, alias) ==
  IF k > Len(ts) THEN pos
  ELSE
    LET trade == ts[k]
        made == IF trade.symbol \in DOMAIN pos THEN pos
                ELSE Put(pos, trade.symbol, NewPosition)
        position == made[trade.symbol]
    IN
    IF trade.trade_type = "BUY" THEN
      LET old_qty == position.quantity
          old_avg == position.average_price
          new_qty == old_qty + trade.quantity
          new_avg == IF new_qty > 0
                       THEN Frac(old_qty * old_avg.num + trade.quantity * trade.price * old_avg.den,
                                 new_qty * old_avg.den)
                       ELSE Zero
      IN BsPositionsFrom(ts, k + 1,
           Put(made, trade.symbol,
               [quantity |-> new_qty, avg_price |-> new_avg,
                average_price |-> IF alias THEN new_avg ELSE position.average_price]),
           alias)
    ELSE BsPositionsFrom(ts, k + 1,
           Put(made, trade.symbol, [position EXCEPT !.quantity = @ - trade.quantity]), alias)

\* execute_backtest: the final positions of the trades ts
BsPositions(ts, alias) == BsPositionsFrom(ts, 1, EmptyDict, alias)

\* execute_backtest: execution = BacktestExecution(status=COMPLETED,
\* portfolio_values=portfolio_values, trades=trades, positions=positions, ...)
BsCompletedExecution(now, ts, values, pos) ==
  [status |-> "COMPLETED", start_time |-> now, end_time |-> now,
   error_message |-> NoneText, trades |-> ts, portfolio_values |-> values,
   positions |-> pos]

\* execute_backtest, except branch: BacktestExecution(status=FAILED, error_message=str(e))
BsFailedExecution(now, e) ==
  [status |-> "FAILED", start_time |-> now, end_time |-> now, error_message |-> e,
   trades |-> NotGiven, portfolio_values |-> NotGiven, positions |-> NotGiven]

\* the symbols and initial_capital arguments of execute_integrated_backtest:
\* any list and any number may be passed
RequestSymbolSets == {{}, {"A"}, {"A", "B"}}
\* the capital of a small account: room for a few shares
SmallCapital == 200
RequestCapitals == {0, SmallCapital}
Requests == [symbols : RequestSymbolSets, initial_capital : RequestCapitals]

\* execute_backtest works on the config handed to create_backtest: its symbols
\* and its initial_cash
DefaultRequest == [symbols |-> Symbols, initial_capital |-> SmallCapital]

\* ---------------------------------------------------------------- the state
VARIABLES
  component,         \* which entry point this behaviour exercises
  i,                 \* loop index of the running simulation
  min_length,        \* IBE: bars of the shortest series; TS: len(signals)
  trades,            \* list of Trade
  portfolio_values,  \* list of portfolio values
  positions,         \* dict symbol -> quantity
  current_capital,   \* IBE: running capital
  current_cash,      \* TS: running cash
  price_data,        \* TS: dict symbol -> current price
  commission_rate,   \* TS: config.commission_rate, in thousandths
  market_symbols,    \* IBE: the keys of market_data (symbols that yielded bars)
  day_data,          \* IBE: dict symbol -> close of step i
  awaiting,          \* IBE: suspended in "await generate_signals(day_data)"
  signals,           \* IBE: the mapping the strategy returned at the last step
  signal,            \* TS: the signal processed last
  raised,            \* the last step ended in its except branch
  pc,                \* where the running execute_* call is suspended
  executor,          \* "BS": execute_backtest, "IBE": execute_integrated_backtest
  calls,             \* calls made so far; the running call is attempt number calls
  backtest,          \* the call's local backtest object
  execution,         \* the call's local execution object
  exc,               \* str(e) of the exception the except branch caught
  outcome,           \* how the last call ended
  status_log,        \* the statuses the running attempt has persisted, in order
  visited,           \* the suspension points the running attempt has passed
  request,           \* the symbols and initial capital the running call works on
  fn,                \* the metrics calculation that has been called
  result,            \* what that calculation returned
  args,              \* the arguments of the call made on a single function
  again,             \* what a second call with the same arguments returned
  database_manager,  \* BacktestService.database_manager: None, or the DuckDB manager
  duckdb,            \* the rows of the DuckDB table backtest_results
  runs,              \* the locals of the executions that run concurrently
  db_backtest,       \* the stored Backtest document
  db_executions,     \* the stored BacktestExecution documents, by attempt
  db_results         \* the attempts with a stored BacktestResult

ledger_vars ==
  <<i, min_length, trades, portfolio_values, positions, current_capital, current_cash,
    price_data, commission_rate, market_symbols, day_data, awaiting, signals, signal,
    raised>>

call_vars == <<pc, executor, calls, backtest, execution, exc, outcome, status_log, visited, request>>

db_vars == <<db_backtest, db_executions, db_results>>

metric_vars == <<fn, result>>

run_vars == <<call_vars, db_vars>>

unit_vars == <<args, again>>

cache_vars == <<database_manager, duckdb>>

\* the state only the single calls, the result cache and the concurrent
\* executions work on
side_vars == <<unit_vars, cache_vars, runs>>

vars == <<component, ledger_vars, metric_vars, run_vars, side_vars>>

\* the locals of _execute_simulation / simulate_trades before their loops
LedgerInit ==
  /\ i = 0
  /\ trades = << >>
  /\ positions = EmptyDict
  /\ day_data = EmptyDict
  /\ awaiting = FALSE
  /\ signals = << >>
  /\ signal = [action |-> "HOLD"]
  /\ raised = FALSE

\* no call made yet on the one Backtest document create_backtest stored
RunInit ==
  /\ pc = "idle"
  /\ executor = "none"
  /\ calls = 0
  /\ backtest = None
  /\ execution = None
  /\ exc = NoneText
  /\ outcome = "none"
  /\ status_log = << >>
  /\ visited = {}
  /\ request = DefaultRequest
  /\ db_backtest = NewBacktest
  /\ db_executions = EmptyDict
  /\ db_results = {}

\* no metrics calculation called yet
MetricInit ==
  /\ fn = "none"
  /\ result = [raised |-> FALSE]

\* no single call made, no cache configured, no concurrent execution started
SideInit ==
  /\ args = None
  /\ again = None
  /\ database_manager = None
  /\ duckdb = {}
  /\ runs = << >>

InitIBE ==
  /\ component = "IBE"
  /\ LedgerInit
  /\ RunInit
  /\ MetricInit
  /\ SideInit
  /\ min_length \in 1..MaxSteps
  /\ market_symbols \in MarketSymbolSets
  /\ current_capital = DefaultInitialCapital * Milli
  /\ portfolio_values = <<DefaultInitialCapital * Milli>>
  /\ current_cash = 0
  /\ price_data = EmptyDict
  /\ commission_rate = 0

InitTS ==
  /\ component = "TS"
  /\ LedgerInit
  /\ RunInit
  /\ MetricInit
  /\ SideInit
  /\ min_length \in 1..MaxSignals
  /\ market_symbols = {}
  /\ commission_rate \in CommissionRates
  /\ current_cash = DefaultInitialCash * Milli
  /\ portfolio_values = <<DefaultInitialCash * Milli>>
  /\ price_data = [s \in Symbols |-> InitialPrice]
  /\ current_capital = 0

\* _execute_simulation, loop head to the suspension in generate_signals: the
\* bars of step i are gathered into day_data
SimDay ==
  /\ component = "IBE"
  /\ ~awaiting
  /\ i < min_length
  /\ day_data' \in [market_symbols -> Closes]
  /\ awaiting' = TRUE
  /\ signals' = << >>
  /\ raised' = FALSE
  /\ UNCHANGED <<run_vars, metric_vars, component, side_vars, i, min_length, trades, portfolio_values, positions,
                 current_capital, current_cash, price_data, commission_rate,
                 market_symbols, signal>>

\* generate_signals returned sigs: the rest of the try block
SimSignals ==
  /\ component = "IBE"
  /\ awaiting
  /\ \E sigs \in IbeSignalDicts :
       LET done == ExecuteTrades(sigs, day_data, positions, current_capital)
           capital == CapitalAfter(current_capital, done.trades, 1)
       IN
       /\ signals' = sigs
       /\ positions' = done.positions
       /\ raised' = done.raised
       /\ IF done.raised
            THEN /\ portfolio_values' =
                      Append(portfolio_values, portfolio_values[Len(portfolio_values)])
                 /\ UNCHANGED <<trades, current_capital>>
            ELSE /\ trades' = trades \o done.trades
                 /\ current_capital' = capital
                 /\ portfolio_values' =
                      Append(portfolio_values,
                             CalculatePortfolioValue(done.positions, day_data, capital))
  /\ awaiting' = FALSE
  /\ i' = i + 1
  /\ UNCHANGED <<run_vars, metric_vars, component, side_vars, min_length, current_cash, price_data, commission_rate,
                 market_symbols, day_data, signal>>

\* generate_signals raised: the except branch repeats the previous value
SimStrategyFails ==
  /\ component = "IBE"
  /\ awaiting
  /\ raised' = TRUE
  /\ portfolio_values' = Append(portfolio_values, portfolio_values[Len(portfolio_values)])
  /\ awaiting' = FALSE
  /\ i' = i + 1
  /\ UNCHANGED <<run_vars, metric_vars, component, side_vars, min_length, trades, positions, current_capital, current_cash,
                 price_data, commission_rate, market_symbols, day_data, signals, signal>>

\* simulate_trades: one iteration of "for _, signal in enumerate(signals)"
TsStep ==
  /\ component = "TS"
  /\ i < min_length
  /\ \E sig \in TsSignalDicts, walk \in WalkPrices :
       LET st == [current_cash |-> current_cash, positions |-> positions,
                  trades |-> trades, price_data |-> price_data,
                  portfolio_values |-> portfolio_values, raised |-> FALSE]
           nw == SimulateSignal(st, sig, walk, commission_rate)
       IN
       /\ signal' = sig
       /\ current_cash' = nw.current_cash
       /\ positions' = nw.positions
       /\ trades' = nw.trades
       /\ price_data' = nw.price_data
       /\ portfolio_values' = nw.portfolio_values
       /\ raised' = nw.raised
  /\ i' = i + 1
  /\ UNCHANGED <<run_vars, metric_vars, component, side_vars, min_length, current_capital, commission_rate,
                 market_symbols, day_data, awaiting, signals>>


SimNext == SimDay \/ SimSignals \/ SimStrategyFails

InitRUN ==
  /\ component = "RUN"
  /\ LedgerInit
  /\ RunInit
  /\ MetricInit
  /\ SideInit
  /\ min_length = 0
  /\ market_symbols = {}
  /\ current_capital = 0
  /\ portfolio_values = << >>
  /\ current_cash = 0
  /\ price_data = EmptyDict
  /\ commission_rate = 0

\* backtest.save(): the stored document becomes the local object
Persist(b) ==
  /\ db_backtest' = b
  /\ status_log' = Append(status_log, b.status)

\* the call returns to its caller
Return(how) ==
  /\ pc' = "idle"
  /\ outcome' = how

\* control enters "except Exception as e" with str(e) = e, the local objects
\* being b and x
Except(e, b, x) ==
  /\ exc' = e
  /\ IF b # None THEN pc' = "handler_backtest" /\ outcome' = outcome
     ELSE IF x # None THEN pc' = "handler_execution" /\ outcome' = outcome
     ELSE Return("returned")

\* execute_backtest(backtest_id, signals) or execute_integrated_backtest(...) is
\* called and suspends in its lookup of the backtest
Call ==
  /\ component = "RUN"
  /\ pc = "idle"
  /\ calls < MaxCalls
  /\ \E ex \in {"BS", "IBE"} :
       /\ executor' = ex
       /\ request' \in IF ex = "IBE" THEN Requests ELSE {DefaultRequest}
  /\ calls' = calls + 1
  /\ pc' = "get"
  /\ backtest' = None
  /\ execution' = None
  /\ exc' = NoneText
  /\ outcome' = "running"
  /\ status_log' = << >>
  /\ trades' = << >>
  /\ portfolio_values' = << >>
  /\ positions' = EmptyDict
  /\ market_symbols' = {}
  /\ fn' = "none"
  /\ result' = [raised |-> FALSE]
  /\ UNCHANGED <<db_vars, component, side_vars, i, min_length, current_capital, current_cash,
                 price_data, commission_rate, day_data, awaiting, signals, signal, raised>>

\* Backtest.get returns the document
GetFound ==
  /\ pc = "get"
  /\ backtest' = Some(db_backtest)
  /\ pc' = "mark_running"
  /\ UNCHANGED <<executor, calls, execution, exc, outcome, status_log, db_vars,
                 component, side_vars, ledger_vars, metric_vars, request>>

\* Backtest.get returns None (unknown id), or get_backtest swallowed an
\* exception: "if not backtest: return None"
GetNone ==
  /\ pc = "get"
  /\ Return("returned")
  /\ UNCHANGED <<executor, calls, backtest, execution, exc, status_log, db_vars,
                 component, side_vars, ledger_vars, metric_vars, request>>

\* execute_integrated_backtest: Backtest.get raises inside the try block
IbeGetRaises ==
  /\ pc = "get"
  /\ executor = "IBE"
  /\ Except("get failed", backtest, execution)
  /\ UNCHANGED <<executor, calls, backtest, execution, status_log, db_vars,
                 component, side_vars, ledger_vars, metric_vars, request>>

\* backtest.status = RUNNING; await backtest.save()
MarkRunning ==
  /\ pc = "mark_running"
  /\ LET b == IF executor = "IBE" THEN IbeMarkRunning(Val(backtest), calls)
                                  ELSE BsMarkRunning(Val(backtest), calls)
     IN
     /\ backtest' = Some(b)
     /\ \/ /\ Persist(b)
           /\ pc' = IF executor = "IBE" THEN "insert_execution" ELSE "simulate"
           /\ UNCHANGED <<exc, outcome>>
        \/ /\ Except("save failed", Some(b), execution)
           /\ UNCHANGED <<db_backtest, status_log>>
  /\ UNCHANGED <<executor, calls, execution, db_executions, db_results,
                 component, side_vars, ledger_vars, metric_vars, request>>

\* execute_integrated_backtest: execution = BacktestExecution(...);
\* await execution.insert()
IbeInsertExecution ==
  /\ pc = "insert_execution"
  /\ LET x == IbeNewExecution(calls) IN
     /\ execution' = Some(x)
     /\ \/ /\ db_executions' = Put(db_executions, calls, x)
           /\ pc' = "collect"
           /\ UNCHANGED <<exc, outcome>>
        \/ /\ Except("insert failed", backtest, Some(x))
           /\ UNCHANGED db_executions
  /\ UNCHANGED <<executor, calls, backtest, status_log, db_backtest, db_results,
                 component, side_vars, ledger_vars, metric_vars, request>>

\* execute_integrated_backtest: step 3, every symbol is fetched (a fetch that
\* raises is logged and skipped); got is the keys of market_data_dict
IbeCollect ==
  /\ pc = "collect"
  /\ \E got \in SUBSET request.symbols :
       /\ market_symbols' = got
       /\ IF got = {}
            THEN Except("No market data collected", backtest, execution)
            ELSE pc' = "strategy" /\ UNCHANGED <<exc, outcome>>
  /\ UNCHANGED <<executor, calls, backtest, execution, status_log, db_vars,
                 component, side_vars, metric_vars, request, i, min_length, trades, portfolio_values,
                 positions, current_capital, current_cash, price_data, commission_rate,
                 day_data, awaiting, signals, signal, raised>>

\* execute_integrated_backtest: step 4, get_strategy_instance returns an
\* instance, returns None or raises
IbeStrategy ==
  /\ pc = "strategy"
  /\ \/ pc' = "simulate" /\ UNCHANGED <<exc, outcome>>
     \/ Except("Failed to create strategy instance", backtest, execution)
     \/ Except("strategy service failed", backtest, execution)
  /\ UNCHANGED <<executor, calls, backtest, execution, status_log, db_vars,
                 component, side_vars, ledger_vars, metric_vars, request>>

\* execute_integrated_backtest: steps 5 and 6, _execute_simulation and
\* _calculate_performance_metrics return or raise
IbeSimulate ==
  /\ pc = "simulate"
  /\ executor = "IBE"
  /\ \/ \E closes \in RunCloses, outs \in RunStrategies :
          LET initial_capital == request.initial_capital * Milli
              sim == ExecuteSimulation(Days(market_symbols, closes), outs, initial_capital)
              performance == IbePerformance(sim.portfolio_values, initial_capital, sim.trades)
          IN
          /\ portfolio_values' = sim.portfolio_values
          /\ positions' = sim.positions
          /\ trades' = performance.trades
          /\ fn' = "IntegratedBacktestExecutor._calculate_performance_metrics"
          /\ result' = performance
          /\ IF performance.raised
               THEN Except("float division by zero", backtest, execution)
               ELSE pc' = "insert_result" /\ UNCHANGED <<exc, outcome>>
     \/ /\ Except("simulation failed", backtest, execution)
        /\ UNCHANGED <<trades, portfolio_values, positions, metric_vars>>
  /\ UNCHANGED <<executor, calls, backtest, execution, status_log, db_vars,
                 component, side_vars, request, i, min_length, current_capital, current_cash,
                 price_data, commission_rate, market_symbols, day_data, awaiting, signals,
                 signal, raised>>

\* execute_integrated_backtest: step 7, await result.insert()
IbeInsertResult ==
  /\ pc = "insert_result"
  /\ \/ /\ db_results' = db_results \cup {calls}
        /\ pc' = "save_completed"
        /\ UNCHANGED <<exc, outcome>>
     \/ /\ Except("insert failed", backtest, execution)
        /\ UNCHANGED db_results
  /\ UNCHANGED <<executor, calls, backtest, execution, status_log, db_backtest,
                 db_executions, component, side_vars, ledger_vars, metric_vars, request>>

\* execute_integrated_backtest: step 8, backtest.status = COMPLETED;
\* await backtest.save()
IbeSaveCompleted ==
  /\ pc = "save_completed"
  /\ LET b == IbeMarkCompleted(Val(backtest), calls, Some(PerformanceMetrics(result))) IN
     /\ backtest' = Some(b)
     /\ \/ /\ Persist(b)
           /\ pc' = "save_execution"
           /\ UNCHANGED <<exc, outcome>>
        \/ /\ Except("save failed", Some(b), execution)
           /\ UNCHANGED <<db_backtest, status_log>>
  /\ UNCHANGED <<executor, calls, execution, db_executions, db_results,
                 component, side_vars, ledger_vars, metric_vars, request>>

\* execute_integrated_backtest: execution.status = COMPLETED;
\* await execution.save(); return result
IbeSaveExecution ==
  /\ pc = "save_execution"
  /\ LET x == IbeExecutionCompleted(Val(execution), calls, trades, portfolio_values) IN
     /\ execution' = Some(x)
     /\ \/ /\ db_executions' = Put(db_executions, calls, x)
           /\ Return("returned")
           /\ UNCHANGED exc
        \/ /\ Except("save failed", backtest, Some(x))
           /\ UNCHANGED db_executions
  /\ UNCHANGED <<executor, calls, backtest, status_log, db_backtest, db_results,
                 component, side_vars, ledger_vars, metric_vars, request>>

\* execute_backtest: simulate_trades, calculate_metrics and the positions are
\* computed (any of them may raise), then backtest.status = COMPLETED;
\* await backtest.save()
BsSimulateAndSave ==
  /\ pc = "simulate"
  /\ executor = "BS"
  /\ \/ /\ Except("simulation failed", backtest, execution)
        /\ UNCHANGED <<backtest, execution, db_backtest, status_log, trades,
                       portfolio_values, positions, metric_vars>>
     \/ \E sigs \in RunSignalLists, walks \in RunWalks :
          LET initial_cash == request.initial_capital * Milli
              sim == SimulateTrades(sigs, walks, initial_cash, DefaultCommissionRate)
              metrics == PcCalculateMetrics(sim.portfolio_values, initial_cash)
          IN
          /\ trades' = sim.trades
          /\ portfolio_values' = sim.portfolio_values
          /\ positions' = sim.positions
          /\ fn' = "PerformanceCalculator.calculate_metrics"
          /\ result' = metrics
          /\ IF metrics.raised
               THEN /\ Except("float division by zero", backtest, execution)
                    /\ UNCHANGED <<backtest, execution, db_backtest, status_log>>
               ELSE
                 \* the final positions are computed: Position is built with avg_price
                 \* and read as average_price; the class is defined outside services/,
                 \* so the read of a BUY trade's position either raises or yields
                 \/ /\ CountOf(sim.trades, "BUY") > 0
                    /\ Except("Position has no attribute average_price", backtest, execution)
                    /\ UNCHANGED <<backtest, execution, db_backtest, status_log>>
                 \/ \E alias \in BOOLEAN :
                      LET b == BsMarkCompleted(Val(backtest), calls,
                                               Some(BsPerformance(metrics, sim.trades)))
                          x == BsCompletedExecution(calls, sim.trades, sim.portfolio_values,
                                                    BsPositions(sim.trades, alias))
                      IN
                      /\ backtest' = Some(b)
                      /\ execution' = Some(x)
                      /\ \/ /\ Persist(b)
                            /\ pc' = "insert_execution_bs"
                            /\ UNCHANGED <<exc, outcome>>
                         \/ /\ Except("save failed", Some(b), Some(x))
                            /\ UNCHANGED <<db_backtest, status_log>>
  /\ UNCHANGED <<executor, calls, db_executions, db_results,
                 component, side_vars, request, i, min_length, current_capital, current_cash,
                 price_data, commission_rate, market_symbols, day_data, awaiting, signals,
                 signal, raised>>

\* execute_backtest: await execution.insert(); return execution
BsInsertExecution ==
  /\ pc = "insert_execution_bs"
  /\ \/ /\ db_executions' = Put(db_executions, calls, Val(execution))
        /\ Return("returned")
        /\ UNCHANGED exc
     \/ /\ Except("insert failed", backtest, execution)
        /\ UNCHANGED db_executions
  /\ UNCHANGED <<executor, calls, backtest, execution, status_log, db_backtest,
                 db_results, component, side_vars, ledger_vars, metric_vars, request>>

\* the except branch marks the backtest FAILED and awaits backtest.save(); a
\* save that raises here leaves the call through the exception
HandlerBacktest ==
  /\ pc = "handler_backtest"
  /\ LET b == IF executor = "IBE" THEN IbeMarkFailed(Val(backtest), calls, exc)
                                  ELSE BsMarkFailed(Val(backtest), calls, exc)
     IN
     /\ backtest' = Some(b)
     /\ \/ /\ Persist(b)
           /\ IF executor = "IBE" /\ execution = None
                THEN Return("returned")
                ELSE pc' = "handler_execution" /\ UNCHANGED outcome
        \/ /\ Return("raised in backtest.save")
           /\ UNCHANGED <<db_backtest, status_log>>
  /\ UNCHANGED <<executor, calls, execution, exc, db_executions, db_results,
                 component, side_vars, ledger_vars, metric_vars, request>>

\* the except branch records the failed execution: execute_backtest inserts a
\* new FAILED BacktestExecution, execute_integrated_backtest saves its own
HandlerExecution ==
  /\ pc = "handler_execution"
  /\ LET x == IF executor = "IBE" THEN IbeExecutionFailed(Val(execution), calls, exc)
                                  ELSE BsFailedExecution(calls, exc)
     IN
     /\ execution' = Some(x)
     /\ \/ /\ db_executions' = Put(db_executions, calls, x)
           /\ Return("returned")
        \/ /\ Return("raised in execution.save")
           /\ UNCHANGED db_executions
  /\ UNCHANGED <<executor, calls, backtest, exc, status_log, db_backtest, db_results,
                 component, side_vars, ledger_vars, metric_vars, request>>

\* every step of a call leaves the suspension point it was at
Leave == visited' = IF pc = "idle" THEN {} ELSE visited \cup {pc}

\* a list of trades is about to be handed to _calculate_trade_metrics
InitTM ==
  /\ component = "TM"
  /\ RunInit
  /\ MetricInit
  /\ SideInit
  /\ trades \in TradeLists
  /\ portfolio_values = << >>
  /\ i = 0
  /\ min_length = 0
  /\ positions = EmptyDict
  /\ day_data = EmptyDict
  /\ awaiting = FALSE
  /\ signals = << >>
  /\ signal = [action |-> "HOLD"]
  /\ raised = FALSE
  /\ market_symbols = {}
  /\ current_capital = 0
  /\ current_cash = 0
  /\ price_data = EmptyDict
  /\ commission_rate = 0

\* a value series is about to be handed to the metrics calculations
InitPM ==
  /\ component = "PM"
  /\ RunInit
  /\ MetricInit
  /\ SideInit
  /\ LedgerInit
  /\ portfolio_values \in ValueSeries
  /\ min_length = 0
  /\ market_symbols = {}
  /\ current_capital = 0
  /\ current_cash = 0
  /\ price_data = EmptyDict
  /\ commission_rate = 0

\* a call of a metrics calculation returns what
Returns(name, what) ==
  /\ fn = "none"
  /\ fn' = name
  /\ result' = what

\* _calculate_trade_metrics(trades) is called: it returns its counts and leaves
\* the Trade objects of the list as it changed them
TradeMetrics ==
  /\ component = "TM"
  /\ LET r == CalculateTradeMetrics(trades) IN
     /\ Returns("_calculate_trade_metrics",
                [win_rate |-> r.win_rate, winning_trades |-> r.winning_trades,
                 losing_trades |-> r.losing_trades, positions |-> r.positions,
                 matches |-> r.matches, given |-> trades])
     /\ trades' = r.trades
  /\ UNCHANGED <<run_vars, component, side_vars, i, min_length, portfolio_values, positions,
                 current_capital, current_cash, price_data, commission_rate,
                 market_symbols, day_data, awaiting, signals, signal, raised>>

\* what a call on the value series leaves alone
SeriesUnchanged == UNCHANGED <<run_vars, component, side_vars, ledger_vars>>

\* IntegratedBacktestExecutor._calculate_max_drawdown(portfolio_values)
IbeMaxDrawdown ==
  /\ component = "PM"
  /\ Returns("IntegratedBacktestExecutor._calculate_max_drawdown",
             IbeCalculateMaxDrawdown(portfolio_values))
  /\ SeriesUnchanged

\* PerformanceCalculator._calculate_max_drawdown(portfolio_values)
PcMaxDrawdown ==
  /\ component = "PM"
  /\ Returns("PerformanceCalculator._calculate_max_drawdown",
             PcCalculateMaxDrawdown(portfolio_values))
  /\ SeriesUnchanged

\* IntegratedBacktestExecutor._calculate_performance_metrics(portfolio_values,
\* initial_capital, trades)
IbeMetrics ==
  /\ component = "PM"
  /\ Returns("IntegratedBacktestExecutor._calculate_performance_metrics",
             IbeCalculateMetrics(portfolio_values, MetricsInitialValue))
  /\ SeriesUnchanged

\* PerformanceCalculator.calculate_metrics(portfolio_values, initial_value)
PcMetrics ==
  /\ component = "PM"
  /\ Returns("PerformanceCalculator.calculate_metrics",
             PcCalculateMetrics(portfolio_values, MetricsInitialValue))
  /\ SeriesUnchanged

MetricsNext == TradeMetrics \/ IbeMaxDrawdown \/ PcMaxDrawdown \/ IbeMetrics \/ PcMetrics

\* the metrics calculations alone
SpecMetrics == (InitTM \/ InitPM) /\ [][MetricsNext]_vars

\* ------------------------------------------- single calls of the simulators
\* the bars handed to _execute_simulation, by their closes
UnitCloses == {<<100, 105, 95>>, <<100, 105>>}

\* market_data: the symbols that yielded bars, each with its bars
UnitMarketData == UNION {[keys -> UnitCloses] : keys \in MarketSymbolSets}

\* the symbols argument of _execute_simulation
UnitSymbolLists == {{"A"}, {"B"}, {"A", "B"}}

\* a strategy's answer that holds one order
Order(symbol, action, quantity) ==
  [symbol |-> symbol, signal |-> [valid |-> TRUE, action |-> action, quantity |-> quantity]]

\* what generate_signals does step by step in those calls
UnitStrategies ==
  {<<Returned(<< >>), Returned(<< >>), Returned(<< >>)>>,
   <<Returned(<<Order("A", "BUY", 10)>>), Returned(<< >>), Returned(<< >>)>>,
   <<Returned(<<Order("A", "BUY", 10)>>), StrategyRaised,
     Returned(<<Order("A", "SELL", 10)>>)>>,
   <<Returned(<<Order("A", "BUY", 600), Order("B", "BUY", 600)>>), Returned(<< >>),
     Returned(<< >>)>>}

\* the arguments of a call of _execute_simulation
ExecuteSimulationArgs ==
  [callee : {"_execute_simulation"}, market_data : UnitMarketData,
   symbols : UnitSymbolLists, outs : UnitStrategies,
   initial_capital : {DefaultInitialCapital * Milli}]

\* the signal lists handed to simulate_trades in single calls
UnitSignalLists ==
  {<< >>,
   <<[symbol |-> "A", action |-> "BUY", quantity |-> 10]>>,
   <<[symbol |-> "A", action |-> "BUY", quantity |-> 10],
     [symbol |-> "A", action |-> "SELL", quantity |-> 10]>>}

\* the arguments of a call of simulate_trades
SimulateTradesArgs ==
  [callee : {"simulate_trades"}, signals : UnitSignalLists,
   initial_cash : {DefaultInitialCash * Milli}]

\* the prices np.random.normal moves the symbols to over n signals
WalksOver(n) == [1..n -> WalkPrices]

\* a single call is about to be made; commission_rate is the rate of the
\* config of the backtest it runs for
InitUNIT ==
  /\ component = "UNIT"
  /\ LedgerInit
  /\ RunInit
  /\ MetricInit
  /\ args \in ExecuteSimulationArgs \cup SimulateTradesArgs
  /\ commission_rate \in CommissionRates
  /\ again = None
  /\ database_manager = None
  /\ duckdb = {}
  /\ runs = << >>
  /\ portfolio_values = << >>
  /\ min_length = 0
  /\ market_symbols = {}
  /\ current_capital = 0
  /\ current_cash = 0
  /\ price_data = EmptyDict

\* _execute_simulation(strategy_instance, market_data, initial_capital, symbols)
\* called with the arguments a
ExecuteSimulationOf(a) ==
  ExecuteSimulation(MarketDays(a.market_data, a.symbols), a.outs, a.initial_capital)

\* TradingSimulator(config).simulate_trades(signals) called with the arguments
\* a, the random walk taking the prices walks
SimulateTradesOf(a, walks, rate) == SimulateTrades(a.signals, walks, a.initial_cash, rate)

\* what a single call leaves alone
UnitUnchanged ==
  UNCHANGED <<run_vars, component, ledger_vars, args, cache_vars, runs>>

\* the call of _execute_simulation returns
UnitExecuteSimulation ==
  /\ component = "UNIT"
  /\ args.callee = "_execute_simulation"
  /\ Returns("_execute_simulation", ExecuteSimulationOf(args))
  /\ UNCHANGED again
  /\ UnitUnchanged

\* the call of simulate_trades returns
UnitSimulateTrades ==
  /\ component = "UNIT"
  /\ args.callee = "simulate_trades"
  /\ \E walks \in WalksOver(Len(args.signals)) :
       Returns("simulate_trades", SimulateTradesOf(args, walks, commission_rate))
  /\ UNCHANGED again
  /\ UnitUnchanged

\* a second execution with the same arguments returns
UnitExecuteSimulationAgain ==
  /\ component = "UNIT"
  /\ fn = "_execute_simulation"
  /\ again = None
  /\ again' = Some(ExecuteSimulationOf(args))
  /\ UNCHANGED metric_vars
  /\ UnitUnchanged

\* a second execution of simulate_trades with the same config and signals
\* returns
UnitSimulateTradesAgain ==
  /\ component = "UNIT"
  /\ fn = "simulate_trades"
  /\ again = None
  /\ \E walks \in WalksOver(Len(args.signals)) :
       again' = Some(SimulateTradesOf(args, walks, commission_rate))
  /\ UNCHANGED metric_vars
  /\ UnitUnchanged

UnitNext ==
  \/ UnitExecuteSimulation
  \/ UnitSimulateTrades
  \/ UnitExecuteSimulationAgain
  \/ UnitSimulateTradesAgain

\* single calls of _execute_simulation and simulate_trades alone
SpecUnit == InitUNIT /\ [][UnitNext]_vars

\* ------------------------------------ BacktestService.create_backtest_result
\* the PerformanceMetrics handed to create_backtest_result
ResultPerformances ==
  {[total_return |-> r, annualized_return |-> r, volatility |-> Zero,
    sharpe_ratio |-> Zero, max_drawdown |-> d] :
     r \in {Zero, Frac(1, 10)}, d \in {Zero, Frac(1, 3)}}

\* the arguments of create_backtest_result; total_invested keeps its default
ResultArgs ==
  [backtest_id : {"b1", "b2"}, execution_id : {"e1"},
   performance_metrics : ResultPerformances, final_portfolio_value : {0, 110},
   cash_remaining : {0}, total_invested : {DefaultInitialCash}]

\* the database_manager a BacktestService is built with: none, or a
\* DatabaseManager whose connection is open or not
DatabaseManagers == {None, Some([connected |-> TRUE]), Some([connected |-> FALSE])}

\* create_backtest_result: result = BacktestResult(backtest_id=..., ...)
NewBacktestResult(a) ==
  [backtest_id |-> a.backtest_id, execution_id |-> a.execution_id,
   performance |-> a.performance_metrics,
   final_portfolio_value |-> a.final_portfolio_value,
   cash_remaining |-> a.cash_remaining, total_invested |-> a.total_invested]

\* _save_result_to_duckdb: result_data, the row save_backtest_result inserts;
\* the call number stands for its fresh uuid
ResultRow(r, id) ==
  [id |-> id, final_value |-> r.final_portfolio_value,
   total_return |-> r.performance.total_return,
   annual_return |-> r.performance.annualized_return,
   volatility |-> r.performance.volatility,
   sharpe_ratio |-> r.performance.sharpe_ratio,
   max_drawdown |-> r.performance.max_drawdown]

\* a faulty variant of AfterCacheFault: the exception leaves the call
AfterCacheFaultRaise(e) == "raise"

\* create_backtest_result: "except Exception as e: logger.error(...)" around
\* the DuckDB write: the fault is logged and the call goes on to its return
AfterCacheFault(e) == "return result"

\* a service is built with one of the database managers
InitCR ==
  /\ component = "CR"
  /\ LedgerInit
  /\ RunInit
  /\ MetricInit
  /\ args = None
  /\ again = None
  /\ database_manager \in DatabaseManagers
  /\ duckdb = {}
  /\ runs = << >>
  /\ portfolio_values = << >>
  /\ min_length = 0
  /\ market_symbols = {}
  /\ current_capital = 0
  /\ current_cash = 0
  /\ price_data = EmptyDict
  /\ commission_rate = 0

\* what create_backtest_result leaves alone
ResultUnchanged ==
  UNCHANGED <<component, ledger_vars, fn, again, database_manager, runs, executor,
              backtest, execution, status_log, visited, request, db_backtest,
              db_executions>>

\* create_backtest_result(...) is called: it builds result and suspends in
\* result.insert()
CrCall ==
  /\ component = "CR"
  /\ pc = "idle"
  /\ calls < MaxCalls
  /\ \E a \in ResultArgs :
       /\ args' = a
       /\ result' = NewBacktestResult(a)
  /\ calls' = calls + 1
  /\ pc' = "result.insert"
  /\ exc' = NoneText
  /\ outcome' = "running"
  /\ UNCHANGED <<db_results, duckdb>>
  /\ ResultUnchanged

\* await result.insert() returns, and the call returns at once when the service
\* has no database_manager; or the insert raises and the exception leaves the
\* call
CrInsert ==
  /\ component = "CR"
  /\ pc = "result.insert"
  /\ \/ /\ db_results' = db_results \cup {calls}
        /\ IF database_manager = None
             THEN Return("returned")
             ELSE pc' = "duckdb_get" /\ UNCHANGED outcome
     \/ /\ Return("raised in result.insert")
        /\ UNCHANGED db_results
  /\ UNCHANGED <<calls, exc, args, result, duckdb>>
  /\ ResultUnchanged

\* the call goes on after the DuckDB write raised e
CrCaught(e) ==
  /\ exc' = e
  /\ IF AfterCacheFault(e) = "return result"
       THEN Return("returned")
       ELSE Return("raised in _save_result_to_duckdb")

\* _save_result_to_duckdb, suspended in Backtest.get: the backtest is found and
\* save_backtest_result inserts the row or raises; or it is not found (a
\* warning, nothing saved); or the lookup raises
CrSaveToDuckdb ==
  /\ component = "CR"
  /\ pc = "duckdb_get"
  /\ \/ /\ Val(database_manager).connected
        /\ duckdb' = duckdb \cup {ResultRow(result, calls)}
        /\ Return("returned")
        /\ UNCHANGED exc
     \/ /\ ~Val(database_manager).connected
        /\ CrCaught("database not connected")
        /\ UNCHANGED duckdb
     \/ /\ Val(database_manager).connected
        /\ CrCaught("INSERT INTO backtest_results failed")
        /\ UNCHANGED duckdb
     \/ /\ Return("returned")
        /\ UNCHANGED <<exc, duckdb>>
     \/ /\ CrCaught("get failed")
        /\ UNCHANGED duckdb
  /\ UNCHANGED <<calls, args, result, db_results>>
  /\ ResultUnchanged

CacheNext == CrCall \/ CrInsert \/ CrSaveToDuckdb

\* create_backtest_result alone
SpecCache == InitCR /\ [][CacheNext]_vars

\* ------------------------------------------ executions that run concurrently
\* two calls of execute_integrated_backtest, each on a backtest of its own
Runs == {1, 2}

\* what a call is given: the closes of the bars of its symbol and what its
\* strategy does step by step
RunInputs == [closes : RunCloses, outs : RunStrategies]

\* trades = []; portfolio_values = [initial_capital];
\* current_capital = initial_capital; positions = {}
NewLedger(initial_capital) ==
  [trades |-> << >>, portfolio_values |-> <<initial_capital>>,
   current_capital |-> initial_capital, positions |-> EmptyDict]

\* a call that has not started: its arguments, where it is suspended, its loop
\* index, the locals of its _execute_simulation, the status stored for its
\* backtest, and whether the other call was under way at one of its steps
NewRun(input) ==
  [closes |-> input.closes, outs |-> input.outs, initial_capital |-> SmallCapital * Milli,
   pc |-> "start", i |-> 0, ledger |-> NewLedger(0), status |-> DefaultStatus,
   interleaved |-> FALSE]

\* a faulty variant of OwnLedger: one ledger, kept on the executor, serves
\* every call
FirstLedger(rs, r) == rs[1].ledger

\* trades, portfolio_values, current_capital and positions are locals of the
\* call of _execute_simulation: call r works on its own
OwnLedger(rs, r) == rs[r].ledger

\* two calls are about to be made on one IntegratedBacktestExecutor
InitCONC ==
  /\ component = "CONC"
  /\ LedgerInit
  /\ RunInit
  /\ MetricInit
  /\ runs \in [Runs -> {NewRun(input) : input \in RunInputs}]
  /\ args = None
  /\ again = None
  /\ database_manager = None
  /\ duckdb = {}
  /\ portfolio_values = << >>
  /\ min_length = 0
  /\ market_symbols = {}
  /\ current_capital = 0
  /\ current_cash = 0
  /\ price_data = EmptyDict
  /\ commission_rate = 0

\* call r takes a step that leaves it as next: the locals of the other call
\* stay as they are
RunStep(r, next) ==
  /\ runs' = [runs EXCEPT ![r] =
                [next EXCEPT !.interleaved =
                   @ \/ \E o \in Runs \ {r} : runs[o].pc \notin {"start", "done"}]]
  /\ UNCHANGED <<component, ledger_vars, metric_vars, run_vars, unit_vars, cache_vars>>

\* steps 1 to 4: the backtest is loaded and saved as RUNNING, the execution
\* inserted, the bars collected and the strategy created
ConcMarkRunning(r) ==
  /\ component = "CONC"
  /\ runs[r].pc = "start"
  /\ RunStep(r, [runs[r] EXCEPT !.pc = "enter", !.status = "RUNNING"])

\* step 5: _execute_simulation is entered and makes its locals
ConcEnter(r) ==
  /\ component = "CONC"
  /\ runs[r].pc = "enter"
  /\ RunStep(r, [runs[r] EXCEPT !.pc = "loop", !.i = 0,
                                !.ledger = NewLedger(runs[r].initial_capital)])

\* the loop head gathers day_data and suspends in generate_signals
ConcDay(r) ==
  /\ component = "CONC"
  /\ runs[r].pc = "loop"
  /\ runs[r].i < Len(runs[r].closes)
  /\ RunStep(r, [runs[r] EXCEPT !.pc = "await"])

\* generate_signals returns or raises: the rest of the loop body
ConcSignals(r) ==
  /\ component = "CONC"
  /\ runs[r].pc = "await"
  /\ LET k == runs[r].i + 1
         day == [s \in {"A"} |-> runs[r].closes[k]]
         out == runs[r].outs[k]
         ledger == OwnLedger(runs, r)
         previous == ledger.portfolio_values[Len(ledger.portfolio_values)]
         done == ExecuteTrades(out.signals, day, ledger.positions, ledger.current_capital)
         capital == CapitalAfter(ledger.current_capital, done.trades, 1)
         after ==
           IF out.raises
             THEN [ledger EXCEPT !.portfolio_values = Append(@, previous)]
           ELSE IF done.raised
             THEN [ledger EXCEPT !.positions = done.positions,
                                 !.portfolio_values = Append(@, previous)]
           ELSE [ledger EXCEPT !.positions = done.positions,
                               !.trades = @ \o done.trades,
                               !.current_capital = capital,
                               !.portfolio_values =
                                  Append(@, CalculatePortfolioValue(done.positions, day,
                                                                    capital))]
     IN RunStep(r, [runs[r] EXCEPT !.pc = "loop", !.i = k, !.ledger = after])

\* steps 6 to 8: the metrics are calculated, the result inserted, the backtest
\* saved as COMPLETED and the execution saved with the trades and values
ConcFinish(r) ==
  /\ component = "CONC"
  /\ runs[r].pc = "loop"
  /\ runs[r].i = Len(runs[r].closes)
  /\ LET ledger == OwnLedger(runs, r)
         performance == IbePerformance(ledger.portfolio_values, runs[r].initial_capital,
                                       ledger.trades)
     IN RunStep(r, [runs[r] EXCEPT !.pc = "done",
                                   !.ledger = [ledger EXCEPT !.trades = performance.trades],
                                   !.status = IF performance.raised THEN "FAILED"
                                              ELSE "COMPLETED"])

ConcNext ==
  \E r \in Runs :
    \/ ConcMarkRunning(r)
    \/ ConcEnter(r)
    \/ ConcDay(r)
    \/ ConcSignals(r)
    \/ ConcFinish(r)

\* two concurrent calls of execute_integrated_backtest alone
SpecConc == InitCONC /\ [][ConcNext]_vars

RunNext ==
  \/ Call /\ Leave
  \/ GetFound /\ Leave
  \/ GetNone /\ Leave
  \/ IbeGetRaises /\ Leave
  \/ MarkRunning /\ Leave
  \/ IbeInsertExecution /\ Leave
  \/ IbeCollect /\ Leave
  \/ IbeStrategy /\ Leave
  \/ IbeSimulate /\ Leave
  \/ IbeInsertResult /\ Leave
  \/ IbeSaveCompleted /\ Leave
  \/ IbeSaveExecution /\ Leave
  \/ BsSimulateAndSave /\ Leave
  \/ BsInsertExecution /\ Leave
  \/ HandlerBacktest /\ Leave
  \/ HandlerExecution /\ Leave

\* the lifecycle of execute_backtest and execute_integrated_backtest alone
SpecRun == InitRUN /\ [][RunNext]_vars

Init == InitIBE \/ InitTS \/ InitRUN \/ InitTM \/ InitPM \/ InitUNIT \/ InitCR \/ InitCONC

Next == SimNext \/ TsStep \/ RunNext \/ MetricsNext \/ UnitNext \/ CacheNext \/ ConcNext

Spec == Init /\ [][Next]_vars

\* IntegratedBacktestExecutor._execute_simulation alone
SpecIBE == InitIBE /\ [][SimNext]_vars

\* TradingSimulator.simulate_trades alone
SpecTS == InitTS /\ [][TsStep]_vars

\* ------------------------------------------------------------- the claims
\* what a recorded trade does to cash: a BUY takes price * quantity plus the
\* commission, a SELL gives price * quantity less the commission
CashEffect(trade) ==
  IF trade.trade_type = "BUY"
    THEN 0 - (trade.price * trade.quantity * Milli + trade.commission)
    ELSE trade.price * trade.quantity * Milli - trade.commission

RECURSIVE CashOfTrades(_, _)
\* the cash effect of the first n trades of ts together
CashOfTrades(ts, n) ==
  IF n = 0 THEN 0 ELSE CashOfTrades(ts, n - 1) + CashEffect(ts[n])

RECURSIVE NetQuantity(_, _, _)
\* bought less sold quantity of symbol s over the first n trades of ts
NetQuantity(ts, s, n) ==
  IF n = 0 THEN 0
  ELSE NetQuantity(ts, s, n - 1)
         + (IF ts[n].symbol # s THEN 0
            ELSE IF ts[n].trade_type = "BUY" THEN ts[n].quantity ELSE 0 - ts[n].quantity)

\* the trades a step appends
NewTrades == SubSeq(trades', Len(trades) + 1, Len(trades'))

\* the step is one application of the strategy's signals by _execute_trades
IsSimSignalsStep == component = "IBE" /\ awaiting /\ ~awaiting' /\ signals' # << >>

\* the step is one iteration of simulate_trades
IsTsStep == component = "TS" /\ i' = i + 1

InitialCash ==
  IF component = "TS" THEN DefaultInitialCash * Milli ELSE DefaultInitialCapital * Milli

Cash == IF component = "TS" THEN current_cash ELSE current_capital

\* C1: in both ledgers a SELL signal for more than the quantity held of its
\* symbol is rejected entirely: it appends no Trade and leaves the position
\* quantity and the cash as they were; it is never filled for less.
C1_OversizedSellRejected ==
  [][/\ IsSimSignalsStep =>
          \A k \in 1..Len(signals') :
            LET symbol == signals'[k].symbol
                sig == signals'[k].signal
            IN
            (sig.valid /\ sig.action = "SELL"
               /\ sig.quantity > Get(positions, symbol, 0)) =>
              /\ Get(positions', symbol, 0) = Get(positions, symbol, 0)
              /\ \A n \in 1..Len(NewTrades) : NewTrades[n].symbol # symbol
              /\ Len(signals') = 1 =>
                   (trades' = trades /\ current_capital' = current_capital)
     /\ IsTsStep =>
          LET symbol == Get(signal', "symbol", ConfigSymbols[1]) IN
          (Get(signal', "action", "BUY") = "SELL"
             /\ Get(signal', "quantity", DefaultQuantity) > Get(positions, symbol, 0)) =>
            (trades' = trades /\ positions' = positions /\ current_cash' = current_cash)
    ]_vars

\* C2: within one step of _execute_simulation the signals are applied in the
\* order returned, and a BUY is admitted only if its total cost (price x
\* quantity plus commission) fits the cash left by the trades accepted before
\* it in that step.
C2_BuyAdmittedAgainstRemainingCash ==
  [][IsSimSignalsStep =>
       \A n \in 1..Len(NewTrades) :
         NewTrades[n].trade_type = "BUY" =>
           NewTrades[n].price * NewTrades[n].quantity * Milli + NewTrades[n].commission
             <= current_capital + CashOfTrades(NewTrades, n - 1)
    ]_vars

\* C3: whatever signals are applied (any action, any integer quantity), the
\* position quantity of every symbol is >= 0 in every reachable state of
\* both ledgers.
C3_NoNegativePosition == \A s \in DOMAIN positions : positions[s] >= 0

\* C4: after every step of _execute_simulation the value appended to the series
\* is the current cash plus the held quantities at that step's prices, and
\* that cash and those quantities are exactly what the recorded trades give.
C4_ValueIsCashPlusHoldings ==
  (component = "IBE" /\ ~awaiting /\ i > 0) =>
    /\ portfolio_values[Len(portfolio_values)]
         = current_capital
             + SumOver([s \in DOMAIN positions |->
                          positions[s] * Get(day_data, s, 0) * Milli], DOMAIN positions)
    /\ current_capital = InitialCash + CashOfTrades(trades, Len(trades))
    /\ \A s \in Symbols : Get(positions, s, 0) = NetQuantity(trades, s, Len(trades))

\* C5: the cash of a ledger is the initial cash less price x quantity +
\* commission of every recorded BUY plus price x quantity - commission of
\* every recorded SELL: no cash moves without a recorded Trade and no recorded
\* Trade lacks its cash movement.
C5_CashConservation ==
  component \in {"TS", "IBE"} => Cash = InitialCash + CashOfTrades(trades, Len(trades))

\* the statuses the running (or last) attempt has persisted
Persisted(status) == \E k \in DOMAIN status_log : status_log[k] = status

\* the last call is over and it caught a failure after loading the backtest
AttemptFailed == pc = "idle" /\ calls > 0 /\ exc # NoneText /\ backtest # None

\* C6: the persisted status of a Backtest moves only along PENDING -> RUNNING
\* -> {COMPLETED, FAILED}, and these two are terminal: once a Backtest has been
\* persisted as COMPLETED or FAILED by an earlier call, no later call of
\* execute_backtest or execute_integrated_backtest on the same id changes its
\* status or any other field (status_log is empty while the running call has
\* written nothing itself).
C6_TerminalStatusIsFinal ==
  [][(db_backtest.status \in {"COMPLETED", "FAILED"} /\ status_log = << >>)
       => db_backtest' = db_backtest]_vars

\* C7: every call that has persisted the run as RUNNING leaves the persisted
\* status, when it ends, as exactly one of COMPLETED or FAILED and never as
\* RUNNING, whichever step fails, a save or insert of the success path or of
\* the failure handler included.
C7_EveryRunEndsTerminal ==
  (pc = "idle" /\ Persisted("RUNNING")) => db_backtest.status \in {"COMPLETED", "FAILED"}

\* C8: a Backtest is never persisted COMPLETED in an attempt whose Execution
\* record or result is not saved: an attempt that persisted COMPLETED has its
\* COMPLETED execution (and, for the integrated executor, its result) stored
\* when it ends, and never persists FAILED after COMPLETED.
C8_NoCompletedWithoutRecord ==
  /\ \A k, j \in DOMAIN status_log :
       k < j => ~(status_log[k] = "COMPLETED" /\ status_log[j] = "FAILED")
  /\ (pc = "idle" /\ Persisted("COMPLETED")) =>
       /\ calls \in DOMAIN db_executions
       /\ db_executions[calls].status = "COMPLETED"
       /\ executor = "IBE" => calls \in db_results

\* C9: for every failure raised after the backtest was loaded, a
\* BacktestExecution with status FAILED and error_message = str(e) is persisted
\* for the attempt (stated for the attempts whose except branch ran to its end).
C9_FailedExecutionRecorded ==
  (AttemptFailed /\ outcome = "returned") =>
    /\ calls \in DOMAIN db_executions
    /\ db_executions[calls].status = "FAILED"
    /\ db_executions[calls].error_message = exc

\* C10: whenever an attempt fails, the persisted Backtest has status FAILED
\* with an error_message, an end_time and a duration_seconds (stated for the
\* attempts whose except branch ran to its end).
C10_FailedBacktestFields ==
  (AttemptFailed /\ outcome = "returned") =>
    /\ db_backtest.status = "FAILED"
    /\ db_backtest.error_message # NoneText
    /\ db_backtest.end_time # NoneTime
    /\ db_backtest.duration_seconds # NoneTime

\* the attempt is past its RUNNING save and at or before its simulation
SimulationWorkBegun == pc \in {"insert_execution", "collect", "strategy", "simulate"}

\* C11: the run is persisted as RUNNING with its start_time before any market
\* data is fetched, any strategy is instantiated or any simulation step runs:
\* in every state in which that work has begun the stored status is RUNNING
\* and the stored start_time is the one of this attempt.
C11_RunningBeforeSimulationWork ==
  SimulationWorkBegun =>
    /\ db_backtest.status = "RUNNING"
    /\ db_backtest.start_time = calls
    /\ status_log = <<"RUNNING">>

\* a second attempt, on a run an earlier attempt left terminal, is fetching data
C11_Witness == pc = "collect" /\ calls = 2 /\ executor = "IBE"

\* the attempt found no bars for any requested symbol
NoMarketData == exc = "No market data collected"

InvalidRequest == request.symbols = {} \/ request.initial_capital <= 0

\* C13: an execution request with an empty symbol list or a non-positive
\* initial cash/capital is rejected before any state transition: its attempt
\* never persists RUNNING and creates no Execution record.
C13_InvalidRequestRejected ==
  (calls > 0 /\ InvalidRequest) =>
    /\ ~Persisted("RUNNING")
    /\ calls \notin DOMAIN db_executions

\* the step is the end of a step of _execute_simulation in its except branch
IsFaultedStep == component = "IBE" /\ awaiting /\ ~awaiting' /\ raised'

\* C14: if signal generation or signal application raises at step i of
\* _execute_simulation, the step counts as one without signals: no Trade of
\* the step is added, the cash and every position quantity are as before the
\* step, the previous portfolio value is appended, and the loop goes on with
\* step i + 1.
C14_FaultedStepChangesNothing ==
  [][IsFaultedStep =>
       /\ trades' = trades
       /\ current_capital' = current_capital
       /\ \A s \in Symbols : Get(positions', s, 0) = Get(positions, s, 0)
       /\ portfolio_values' = Append(portfolio_values, portfolio_values[Len(portfolio_values)])
       /\ i' = i + 1
    ]_vars

\* the signal dict sig carries no BUY and no SELL: its action is HOLD, some
\* other value, or missing
NoOrder(sig) == "action" \notin DOMAIN sig \/ sig.action \notin {"BUY", "SELL"}

\* C15: a signal whose action is HOLD, is missing or is any value other than
\* BUY or SELL produces no Trade and leaves the cash and every position
\* quantity unchanged, in simulate_trades and in _execute_trades.
C15_NoOrderNoChange ==
  [][/\ IsTsStep =>
          (NoOrder(signal') =>
             trades' = trades /\ positions' = positions /\ current_cash' = current_cash)
     /\ (IsSimSignalsStep /\ ~raised') =>
          \A k \in 1..Len(signals') :
            NoOrder(signals'[k].signal) =>
              /\ \A n \in 1..Len(NewTrades) : NewTrades[n].symbol # signals'[k].symbol
              /\ Get(positions', signals'[k].symbol, 0) = Get(positions, signals'[k].symbol, 0)
              /\ Len(signals') = 1 => current_capital' = current_capital
    ]_vars

\* _calculate_trade_metrics has returned
TradeMetricsReturned == fn = "_calculate_trade_metrics"

RECURSIVE MatchedOfLot(_, _, _)
\* the quantity of the BUY at index b that the first n matches of ms consumed
MatchedOfLot(ms, b, n) ==
  IF n = 0 THEN 0
  ELSE MatchedOfLot(ms, b, n - 1) + (IF ms[n].lot = b THEN ms[n].quantity ELSE 0)

RECURSIVE MatchedOfSell(_, _, _)
\* the quantity of the SELL at index k that the first n matches of ms matched
MatchedOfSell(ms, k, n) ==
  IF n = 0 THEN 0
  ELSE MatchedOfSell(ms, k, n - 1) + (IF ms[n].sell = k THEN ms[n].quantity ELSE 0)

\* the BUYs of symbol s among the first k trades of ts
BuysBefore(ts, s, k) ==
  {b \in 1..k : ts[b].trade_type = "BUY" /\ ts[b].symbol = s}

\* the quantity of symbol s still open before the trade at index k of ts is
\* handled: bought before k, less what the SELLs before k were matched with
OutstandingBefore(ts, ms, s, k) ==
  SumOver([b \in BuysBefore(ts, s, k - 1) |-> ts[b].quantity], BuysBefore(ts, s, k - 1))
    - SumOver([n \in DOMAIN ms |->
                 IF ms[n].sell < k /\ ts[ms[n].sell].symbol = s THEN ms[n].quantity ELSE 0],
              DOMAIN ms)

\* BUY 10 @ 100, BUY 10 @ 120, SELL 15 @ 130
ExampleTrades ==
  <<Trade("A", "BUY", 10, 100, 0), Trade("A", "BUY", 10, 120, 0),
    Trade("A", "SELL", 15, 130, 0)>>

\* C16: _calculate_trade_metrics matches each SELL against the oldest
\* outstanding BUY lots of its symbol first; a matched portion is winning when
\* (sell price - lot price) x matched quantity > 0 and losing otherwise; a
\* partially consumed lot keeps its price with only the unconsumed quantity
\* left. BUY 10@100, BUY 10@120, SELL 15@130 gives two winning matches with
\* profits 300 and 50, none losing, and an open lot of 5 shares at 120.
C16_FifoAttribution ==
  TradeMetricsReturned =>
    LET given == result.given
        ms == result.matches
        all == Len(ms)
    IN
    /\ \A n \in DOMAIN ms :
         LET m == ms[n] IN
         /\ given[m.lot].trade_type = "BUY"
         /\ given[m.sell].trade_type = "SELL"
         /\ given[m.lot].symbol = given[m.sell].symbol
         /\ m.lot < m.sell
         /\ m.quantity > 0
         /\ m.profit = (given[m.sell].price - given[m.lot].price) * m.quantity
         /\ MatchedOfLot(ms, m.lot, n) <= given[m.lot].quantity
         /\ \A b \in BuysBefore(given, given[m.lot].symbol, m.lot - 1) :
              MatchedOfLot(ms, b, n) = given[b].quantity
    /\ result.winning_trades = Cardinality({n \in DOMAIN ms : ms[n].profit > 0})
    /\ result.losing_trades = Cardinality({n \in DOMAIN ms : ~(ms[n].profit > 0)})
    /\ Len(given) >= 2 =>
         /\ \A k \in DOMAIN given :
              given[k].trade_type = "SELL" =>
                MatchedOfSell(ms, k, all)
                  = Min(given[k].quantity, OutstandingBefore(given, ms, given[k].symbol, k))
         /\ \A s \in Symbols :
              LET open == {b \in BuysBefore(given, s, Len(given)) :
                             MatchedOfLot(ms, b, all) < given[b].quantity}
              IN /\ Get(result.positions, s, << >>) = ListOf([b \in open |-> b], open)
                 /\ \A b \in open :
                      /\ trades[b].price = given[b].price
                      /\ trades[b].quantity = given[b].quantity - MatchedOfLot(ms, b, all)
    /\ given = ExampleTrades =>
         /\ result.winning_trades = 2
         /\ result.losing_trades = 0
         /\ <<ms[1].profit, ms[2].profit>> = <<300, 50>>
         /\ result.positions["A"] = <<2>>
         /\ <<trades[2].quantity, trades[2].price>> = <<5, 120>>

\* the example list has been attributed
C16_Witness == TradeMetricsReturned /\ result.given = ExampleTrades

\* one of the two _calculate_max_drawdown has returned
MaxDrawdownReturned ==
  fn \in {"IntegratedBacktestExecutor._calculate_max_drawdown",
          "PerformanceCalculator._calculate_max_drawdown"}

\* the largest of the first k values of a series
RunningPeak(values, k) ==
  CHOOSE p \in {values[j] : j \in 1..k} : \A j \in 1..k : values[j] <= p

\* the drawdown at point k by the running-peak method, as num / den
DrawdownAt(values, k) ==
  LET peak == RunningPeak(values, k) IN
  IF peak > 0 THEN [num |-> peak - values[k], den |-> peak] ELSE [num |-> 0, den |-> 1]

\* [100, 120, 90, 110, 80]
ExampleSeries == <<100, 120, 90, 110, 80>>

\* C18: max drawdown is computed by the running-peak method: the peak is the
\* maximum of the values seen so far and never decreases, the drawdown at a
\* point is (peak - value) / peak (0 when the peak is not positive) and the
\* result is the largest drawdown of the series; [100, 120, 90, 110, 80] has
\* the peaks [100, 120, 120, 120, 120] and the result 1/3; a non-decreasing
\* series has the result 0. Both implementations.
C18_RunningPeakDrawdown ==
  MaxDrawdownReturned =>
    LET values == portfolio_values
        dd == result.max_dd
    IN
    /\ Len(result.peaks) = Len(values)
    /\ \A k \in DOMAIN values : result.peaks[k] = RunningPeak(values, k)
    /\ \A k \in 2..Len(values) : result.peaks[k - 1] <= result.peaks[k]
    /\ dd.den > 0
    /\ \A k \in DOMAIN values :
         DrawdownAt(values, k).num * dd.den <= dd.num * DrawdownAt(values, k).den
    /\ IF values = << >> THEN dd.num = 0
       ELSE \E k \in DOMAIN values :
              DrawdownAt(values, k).num * dd.den = dd.num * DrawdownAt(values, k).den
    /\ values = ExampleSeries =>
         /\ result.peaks = <<100, 120, 120, 120, 120>>
         /\ 3 * dd.num = dd.den
    /\ (\A k \in 2..Len(values) : values[k - 1] <= values[k]) => dd.num = 0

\* the example series has been measured by PerformanceCalculator
C18_Witness ==
  /\ fn = "PerformanceCalculator._calculate_max_drawdown"
  /\ portfolio_values = ExampleSeries
  /\ result.max_dd = [num |-> 40, den |-> 120]

\* one of the two metrics calculations has returned or raised
MetricsReturned ==
  fn \in {"IntegratedBacktestExecutor._calculate_performance_metrics",
          "PerformanceCalculator.calculate_metrics"}

\* C19: a portfolio-value series of length 0 or 1 yields a metrics record whose
\* total_return, annualized_return, volatility, sharpe_ratio and max_drawdown
\* are all 0.0, returned as a normal result and not as an error, in
\* calculate_metrics and in _calculate_performance_metrics.
C19_ShortSeriesZeroMetrics ==
  (MetricsReturned /\ Len(portfolio_values) < 2) =>
    /\ ~result.raised
    /\ result.total_return = [num |-> 0, den |-> 1]
    /\ result.annualized_return = [num |-> 0, den |-> 1]
    /\ result.volatility = [num |-> 0, den |-> 1]
    /\ result.sharpe_ratio = [num |-> 0, den |-> 1]
    /\ result.max_drawdown = [num |-> 0, den |-> 1]

\* calculate_metrics has returned for a series of one value other than the
\* initial value
C19_Witness ==
  /\ fn = "PerformanceCalculator.calculate_metrics"
  /\ portfolio_values = <<120>>
  /\ ~result.raised

\* some value of the series before its last is 0
ZeroBeforeLast == \E k \in 1..(Len(portfolio_values) - 1) : portfolio_values[k] = 0

\* C20: for a series of length >= 2 in which some value before the last is 0,
\* the metrics calculation raises no division fault: the daily return that
\* follows a 0 value is skipped and a metrics record is returned, in
\* calculate_metrics and in _calculate_performance_metrics.
C20_ZeroValueNoDivisionFault ==
  (MetricsReturned /\ Len(portfolio_values) >= 2 /\ ZeroBeforeLast) =>
    /\ ~result.raised
    /\ result.volatility # [num |-> 0, den |-> 1] =>
         Len(result.volatility.std_of)
           = Cardinality({k \in 1..(Len(portfolio_values) - 1) : portfolio_values[k] # 0})

\* the running (or last) attempt persisted COMPLETED, which is still stored
CompletedStored == Persisted("COMPLETED") /\ db_backtest.status = "COMPLETED"

\* the trades the simulation of the attempt returned
RunTrades == IF executor = "IBE" THEN result.given ELSE trades

\* C17: the winning_trades, losing_trades and win_rate persisted on a
\* COMPLETED run are the FIFO round-trip attribution of the run's trades (a
\* matched lot with positive profit is winning, otherwise losing), for runs of
\* execute_backtest as well as of the integrated executor.
C17_PersistedWinLossIsFifo ==
  CompletedStored =>
    LET performance == Val(db_backtest.performance)
        fifo == CalculateTradeMetrics(RunTrades)
    IN
    /\ performance.winning_trades = fifo.winning_trades
    /\ performance.losing_trades = fifo.losing_trades
    /\ performance.win_rate.num * fifo.win_rate.den
         = fifo.win_rate.num * performance.win_rate.den

\* the end-to-end example: 100000 of capital, one symbol with three daily bars
\* closing at 100, 105 and 95, a strategy that buys 10 on day 0 and nothing
\* afterwards
ExampleCall ==
  [callee |-> "_execute_simulation", market_data |-> [s \in {"A"} |-> <<100, 105, 95>>],
   symbols |-> {"A"},
   outs |-> <<Returned(<<Order("A", "BUY", 10)>>), Returned(<< >>), Returned(<< >>)>>,
   initial_capital |-> 100000 * Milli]

\* _execute_simulation has returned from the example call, the commission
\* being 0.001
ExampleReturned ==
  /\ component = "UNIT"
  /\ fn = "_execute_simulation"
  /\ args = ExampleCall
  /\ commission_rate = 1

\* the example records exactly one trade, the BUY of 10 at 100
ExampleOneBuy ==
  /\ Len(result.trades) = 1
  /\ result.trades[1].symbol = "A"
  /\ result.trades[1].trade_type = "BUY"
  /\ result.trades[1].quantity = 10
  /\ result.trades[1].price = 100

\* C21 (as stated): the end-to-end example records exactly one BUY trade, cash
\* 98990 after day 0 (no later step touches the cash), the portfolio-value
\* series [100000, 99990, 100040, 99940] and total_return = -60/100000.
C21_EndToEndAsStated ==
  ExampleReturned =>
    /\ ExampleOneBuy
    /\ result.current_capital = 98990 * Milli
    /\ result.portfolio_values =
         <<100000 * Milli, 99990 * Milli, 100040 * Milli, 99940 * Milli>>
    /\ IbeTotalReturn(result.portfolio_values, args.initial_capital)
         = Frac(0 - 60 * Milli, 100000 * Milli)

\* C21 (amended): 10 * 100 * 1.001 is 1001, so the end-to-end example records
\* exactly one BUY trade with commission 1, cash 98999 after day 0, the
\* portfolio-value series [100000, 99999, 100049, 99949] and
\* total_return = -51/100000.
C21_EndToEnd ==
  ExampleReturned =>
    /\ ExampleOneBuy
    /\ result.trades[1].commission = 1 * Milli
    /\ result.current_capital = 98999 * Milli
    /\ result.portfolio_values =
         <<100000 * Milli, 99999 * Milli, 100049 * Milli, 99949 * Milli>>
    /\ IbeTotalReturn(result.portfolio_values, args.initial_capital)
         = Frac(0 - 51 * Milli, 100000 * Milli)

C21_Witness == ExampleReturned /\ Len(result.portfolio_values) = 4

\* two executions with the same arguments, config and market data have returned
BothReturned == component = "UNIT" /\ fn # "none" /\ again # None

\* C22: two executions with the same config, the same signals (or the same
\* strategy outputs) and the same market data produce the same portfolio-value
\* series and the same sequence of trades (symbol, side, quantity, price,
\* commission), in simulate_trades and in _execute_simulation.
C22_SameInputsSameOutputs ==
  BothReturned =>
    /\ Val(again).portfolio_values = result.portfolio_values
    /\ Val(again).trades = result.trades

\* a single call of a simulator has returned
UnitReturned == component = "UNIT" /\ fn # "none"

\* the cash the call started with and the cash it ended with
UnitInitialCash ==
  IF fn = "simulate_trades" THEN args.initial_cash ELSE args.initial_capital

UnitFinalCash ==
  IF fn = "simulate_trades" THEN result.current_cash ELSE result.current_capital

\* what a fill moves at commission rate rate (in thousandths): a BUY debits
\* quantity x price x (1 + rate), a SELL credits quantity x price x (1 - rate)
FillAt(trade, rate) ==
  IF trade.trade_type = "BUY"
    THEN 0 - trade.quantity * trade.price * (Milli + rate)
    ELSE trade.quantity * trade.price * (Milli - rate)

RECURSIVE FillsAt(_, _, _)
\* what the first n fills of ts move together at that rate
FillsAt(ts, n, rate) ==
  IF n = 0 THEN 0 ELSE FillsAt(ts, n - 1, rate) + FillAt(ts[n], rate)

\* C24: every fill uses the run's configured commission rate: each Trade's
\* commission is quantity x price x commission_rate, and the cash moves by
\* quantity x price x (1 + commission_rate) on a BUY and by
\* quantity x price x (1 - commission_rate) on a SELL, in simulate_trades and
\* in _execute_simulation / _execute_trades.
C24_ConfiguredCommission ==
  UnitReturned =>
    /\ \A k \in DOMAIN result.trades :
         result.trades[k].commission
           = result.trades[k].quantity * result.trades[k].price * commission_rate
    /\ UnitFinalCash
         = UnitInitialCash + FillsAt(result.trades, Len(result.trades), commission_rate)

\* _execute_simulation has returned from a single call
ExecuteSimulationReturned == component = "UNIT" /\ fn = "_execute_simulation"

\* the steps of the call that left the series without a new value of their own:
\* the strategy raised, or no symbol had a bar
QuietSteps ==
  {k \in 1..MinLength(args.market_data) :
     \/ args.outs[k].raises
     \/ args.symbols \cap DOMAIN args.market_data = {}}

C29_CashNeverNegative ==
  /\ component = "IBE" => current_capital >= 0
  /\ component = "TS" => current_cash >= 0

\* the last call failed after its simulation had executed trades, and its
\* except branch ran to its end
FailedAfterTrades == AttemptFailed /\ outcome = "returned" /\ trades # << >>

\* C23: when an attempt fails after some trades were executed (a fault in the
\* metrics calculation or in a save of the result), the FAILED Execution record
\* persisted for the attempt holds the trades and the portfolio values produced
\* before the fault.
C23_FailedExecutionKeepsTrades ==
  FailedAfterTrades =>
    /\ calls \in DOMAIN db_executions
    /\ db_executions[calls].status = "FAILED"
    /\ db_executions[calls].trades = trades
    /\ db_executions[calls].portfolio_values = portfolio_values

\* the call is over and a COMPLETED Execution record is stored for it
ExecutionCompleted ==
  /\ pc = "idle"
  /\ calls \in DOMAIN db_executions
  /\ db_executions[calls].status = "COMPLETED"

\* the symbols the trades ts are in
TradedSymbols(ts) == {ts[k].symbol : k \in DOMAIN ts}

RECURSIVE BoughtQuantity(_, _, _)
\* the quantity the BUY fills of symbol s among the first n trades of ts bought
BoughtQuantity(ts, s, n) ==
  IF n = 0 THEN 0
  ELSE BoughtQuantity(ts, s, n - 1)
         + (IF ts[n].symbol = s /\ ts[n].trade_type = "BUY" THEN ts[n].quantity ELSE 0)

RECURSIVE BoughtValue(_, _, _)
\* quantity x price of those BUY fills together
BoughtValue(ts, s, n) ==
  IF n = 0 THEN 0
  ELSE BoughtValue(ts, s, n - 1)
         + (IF ts[n].symbol = s /\ ts[n].trade_type = "BUY"
              THEN ts[n].quantity * ts[n].price ELSE 0)

\* C28: on a COMPLETED run the persisted Execution record carries an
\* end-of-run position snapshot in which every traded symbol has, as quantity,
\* the sum of its BUY quantities less the sum of its SELL quantities and, as
\* average price, the volume-weighted average of its BUY fills, for
\* execute_backtest and for execute_integrated_backtest.
C28_CompletedPositionSnapshot ==
  ExecutionCompleted =>
    LET snapshot == db_executions[calls].positions
        ts == RunTrades
    IN \A s \in TradedSymbols(ts) :
         /\ s \in DOMAIN snapshot
         /\ snapshot[s].quantity = NetQuantity(ts, s, Len(ts))
         /\ snapshot[s].avg_price.num * BoughtQuantity(ts, s, Len(ts))
              = BoughtValue(ts, s, Len(ts)) * snapshot[s].avg_price.den

\* C30: computing the performance metrics does not alter the run's trades: the
\* quantity of every Trade stored in the COMPLETED Execution record is the
\* quantity with which the simulation executed it, also when a SELL consumes a
\* BUY lot only in part during the FIFO matching.
C30_MetricsLeaveTradesAlone ==
  ExecutionCompleted =>
    LET stored == db_executions[calls].trades IN
    /\ Len(stored) = Len(RunTrades)
    /\ \A k \in DOMAIN stored : stored[k].quantity = RunTrades[k].quantity

\* a call of create_backtest_result is over in which the DuckDB write failed
CacheWriteFailed == component = "CR" /\ pc = "idle" /\ calls > 0 /\ exc # NoneText

\* C25: a failure of the DuckDB write in create_backtest_result never fails the
\* operation: the BacktestResult is inserted in the primary store and returned,
\* no exception reaches the caller, and the returned result is the one a
\* service without a cache returns for the same arguments (the BacktestResult
\* built from them).
C25_CacheFaultNeverFails ==
  CacheWriteFailed =>
    /\ outcome = "returned"
    /\ calls \in db_results
    /\ result = NewBacktestResult(args)

C25_Witness == CacheWriteFailed /\ exc = "INSERT INTO backtest_results failed"

\* what call r ends with when it runs alone from its start to its end: the
\* whole of _execute_simulation, then the metrics
SequentialRun(r) ==
  LET sim == ExecuteSimulation(Days({"A"}, runs[r].closes), runs[r].outs,
                               runs[r].initial_capital)
      performance == IbePerformance(sim.portfolio_values, runs[r].initial_capital,
                                    sim.trades)
  IN [ledger |-> [trades |-> performance.trades, portfolio_values |-> sim.portfolio_values,
                  current_capital |-> sim.current_capital, positions |-> sim.positions],
      status |-> "COMPLETED"]

\* C26: independent runs share no mutable simulation state: when the steps of
\* two executions of different backtests interleave at their suspension
\* points, each execution ends with the trade list, cash, positions,
\* portfolio-value series and persisted status it ends with when it runs alone.
C26_InterleavedRunsAsSequential ==
  component = "CONC" =>
    \A r \in Runs :
      runs[r].pc = "done" =>
        /\ runs[r].ledger = SequentialRun(r).ledger
        /\ runs[r].status = SequentialRun(r).status

\* both executions are over, they traded, and each took steps while the other
\* was under way
C26_Witness ==
  /\ component = "CONC"
  /\ \A r \in Runs :
       runs[r].pc = "done" /\ runs[r].interleaved /\ runs[r].ledger.trades # << >>
  /\ runs[1].ledger # runs[2].ledger

====
